---- MODULE Spec2Model ----
(***************************************************************************)
(* Card synchronisation and token lifecycle of "You're The Hero!":         *)
(*   src/lib/yoto/library.ts      uploadStoryToYoto and its helpers        *)
(*   src/unnamed/part_002         the token helpers (lib/auth/yoto)        *)
(* Every network or disk request is one atomic step; the local code that   *)
(* follows a response, up to the next request, belongs to the same step.   *)
(***************************************************************************)
EXTENDS Integers, Sequences, FiniteSets, TLC

VARIABLES
    \* ---- the remote platform and the development cache on disk
    cards,            \* the account's cards, in creation order
    hashCache,        \* the cache file of the submitted story text
    isDevelopment,    \* process.env.NODE_ENV === 'development'
    \* ---- one uploadStoryToYoto call per run
    pc,               \* where each run stands
    caller,           \* who called uploadAudioToYoto: uploadStoryToYoto, or nobody of the model
    attempts,         \* the poll loop's counter
    uploadResult,     \* what uploadAudioToYoto returned
    transcodedAudio,  \* the transcode the card steps work with
    existingCard,     \* what getHeroCard returned
    fullCard,         \* updateHeroCard's fullCard
    result,           \* what uploadStoryToYoto returned
    escaped,          \* an exception left uploadStoryToYoto
    \* ---- history of the requests each run issued
    slotResponse,     \* the upload-slot response received
    puts,             \* binary PUT requests issued
    polls,            \* transcode-status requests issued
    hashAt,           \* the poll whose response first carried a hash
    hashData,         \* that response's transcode data
    payload,          \* the body of the card write issued
    atCall,           \* the selected card's remote chapters when updateHeroCard was called
    overlap,          \* a run started while another was under way
    cards0,           \* the account as it was at the start
    lookup,           \* the responses getHeroCard received, when called on its own
    requests,         \* the kinds of request each run has issued
    trace,            \* what each run's cache read, synthesis and cache write came to
    \* ---- the token helpers
    now,              \* Date.now()
    accessToken,      \* the token handed to isTokenExpired
    tokenCheck,       \* the last isTokenExpired call: when, and its answer
    \* ---- ensureValidToken and exchangeCodeForTokens
    tokenData,        \* the token pair handed to ensureValidToken
    clientId,         \* process.env.YOTO_CLIENT_ID is set
    ensurePc,         \* where the ensureValidToken call stands
    ensureResult,     \* what it returned or threw
    ensureAt,         \* Date.now() when it checked the token
    exchangePc,       \* where the exchangeCodeForTokens call stands
    exchangeResult,   \* what it returned or threw
    tokenRequests,    \* the requests sent to /oauth/token, in order
    tokenResponses,   \* the responses to them, in order
    \* ---- the cache helpers called on their own
    cacheDir,         \* .next/yoto-hash-cache: the file of each cache key
    storedTexts,      \* the texts whose file the directory has received
    cachePuts,        \* cacheTranscode calls made
    cachePut,         \* the last cacheTranscode call
    cacheGot,         \* the last getCachedTranscode call
    \* ---- generateAudio
    apiKey,           \* process.env.ELEVENLABS_API_KEY is set
    ttsText,          \* the text to narrate
    voiceId,          \* the voice asked for
    ttsPc,            \* where the generateAudio call stands
    ttsResult,        \* what it returned or threw
    ttsRequests,      \* requests sent to the text-to-speech API
    \* ---- generateStory and validateContentSafetyWithAI
    openaiKey,        \* process.env.OPENAI_API_KEY is set
    storyContent,     \* what the story generator wrote
    storyPc,          \* where the generateStory call stands
    moderation,       \* the moderation request's outcome
    safetyCheck,      \* what validateContentSafetyWithAI returned
    storyResult,      \* what generateStory returned or threw
    \* ---- generateStoryContent
    anthropicKey,     \* process.env.ANTHROPIC_API_KEY is set
    genPc,            \* where the generateStoryContent call stands
    genCalls,         \* the provider requests sent, in order, with their outcomes
    genResult,        \* what generateStoryContent returned or threw
    \* ---- the send-to-yoto route, one request per run
    authHeader,       \* the Authorization header the requests present
    routeBody,        \* each request's JSON body
    routePc,          \* where each request's handler stands
    routeToken,       \* tokenData, as the handler holds it
    routeAccess,      \* validAccessToken
    routeRefresh,     \* the refresh requests each handler sent to /oauth/token
    routeStatus,      \* the status of the response; 0 while there is none
    \* ---- the browser: local storage and the useAuth hook
    localToken,       \* localStorage's item yoto_token
    isAuthenticated,  \* the hook's state
    isLoading,
    hookToken,
    hookPc,           \* the hook is not yet mounted, mounted, or left by logout
    hookChecks,       \* checkAuth calls made
    hookEvents,       \* storage events not yet handled
    \* ---- the OAuth callback page
    verifier,         \* sessionStorage holds pkce_code_verifier
    searchParams,     \* the parameters of the callback URL
    codeRedeemed,     \* the platform has exchanged the code for tokens
    cbPc,             \* where each run of handleCallback stands
    cbAnswer,         \* the answer each run's exchange request received
    cbStatus,         \* the page's status
    cbError           \* the page's error message

vars == <<cards, hashCache, isDevelopment, pc, caller, attempts, uploadResult,
          transcodedAudio, existingCard, fullCard, result, escaped,
          slotResponse, puts, polls, hashAt, hashData, payload, atCall,
          overlap, cards0, lookup, requests, trace, now, accessToken,
          tokenCheck, tokenData, clientId, ensurePc, ensureResult, ensureAt,
          exchangePc, exchangeResult, tokenRequests, tokenResponses,
          cacheDir, storedTexts, cachePuts, cachePut, cacheGot,
          apiKey, ttsText, voiceId, ttsPc, ttsResult, ttsRequests,
          openaiKey, storyContent, storyPc, moderation, safetyCheck, storyResult,
          anthropicKey, genPc, genCalls, genResult,
          authHeader, routeBody, routePc, routeToken, routeAccess,
          routeRefresh, routeStatus,
          localToken, isAuthenticated, isLoading, hookToken, hookPc,
          hookChecks, hookEvents,
          verifier, searchParams, codeRedeemed, cbPc, cbAnswer, cbStatus, cbError>>

flowVars == <<cards, hashCache, isDevelopment, pc, caller, attempts, uploadResult,
              transcodedAudio, existingCard, fullCard, result, escaped,
              slotResponse, puts, polls, hashAt, hashData, payload, atCall,
              overlap, cards0, lookup, requests, trace>>

tokenVars == <<now, accessToken, tokenCheck>>

authVars == <<tokenData, clientId, ensurePc, ensureResult, ensureAt, exchangePc,
              exchangeResult, tokenRequests, tokenResponses>>

cacheVars == <<cacheDir, storedTexts, cachePuts, cachePut, cacheGot>>

ttsVars == <<apiKey, ttsText, voiceId, ttsPc, ttsResult, ttsRequests>>

safetyVars == <<openaiKey, storyContent, storyPc, moderation, safetyCheck, storyResult>>

genVars == <<anthropicKey, genPc, genCalls, genResult>>

routeVars == <<authHeader, routeBody, routePc, routeToken, routeAccess,
               routeRefresh, routeStatus>>

hookVars == <<localToken, isAuthenticated, isLoading, hookToken, hookPc,
              hookChecks, hookEvents>>

callbackVars == <<verifier, searchParams, codeRedeemed, cbPc, cbAnswer, cbStatus, cbError>>

pageVars == <<hookVars, callbackVars>>

helperVars == <<cacheVars, ttsVars, safetyVars, genVars, routeVars, pageVars>>

----------------------------------------------------------------------------
\* Bounds of the model

\* the most chapters a card of the initial account holds
MaxExisting == 2
\* how many times the clock advances in the token specification
MaxTicks == 4

\* the most cards an account holds when getHeroCard is called on its own
MaxCards == 3

\* the two story submissions
Runs == {1, 2}

----------------------------------------------------------------------------
\* Program constants

maxAttempts == 60

HERO_CARD_TITLE == "You're The Hero!"

fiveMinutesInMs == 5 * 60 * 1000

----------------------------------------------------------------------------
\* Values

\* a transcode object; transcodedSha256 = 0 stands for a missing or empty hash
NoTranscode == [transcodedSha256 |-> 0, duration |-> 0, fileSize |-> 0]

\* the transcoder's answer for the audio synthesised in run p (each synthesis
\* picks a voice, so two runs upload different audio)
TranscodeOf(p) == [transcodedSha256 |-> p, duration |-> 10 * p + 1, fileSize |-> 100 * p + 3]

NoMedia == [has |-> FALSE, duration |-> 0, fileSize |-> 0]

\* null, as getHeroCard returns it
NullCard == [present |-> FALSE, cardId |-> 0, hasContent |-> FALSE,
             chapters |-> <<>>, media |-> NoMedia]

NoPayload == [sent |-> FALSE, kind |-> "none", cardId |-> 0, title |-> "",
              chapters |-> <<>>, media |-> NoMedia]

NoResult == [kind |-> "none", cardId |-> 0, transcodeInfo |-> NoTranscode, error |-> ""]

Success(cardId, t) == [kind |-> "ok", cardId |-> cardId, transcodeInfo |-> t, error |-> ""]

Failure(msg) == [kind |-> "fail", cardId |-> 0, transcodeInfo |-> NoTranscode, error |-> msg]

NoUpload == [kind |-> "none", transcodedAudio |-> NoTranscode, error |-> ""]

ErrUploadUrl == "Yoto API: Failed to get upload URL"
ErrNoUploadUrl == "Yoto API: Upload URL not provided in response"
ErrPut == "Yoto API: Audio upload failed"
ErrTimeout == "Yoto API: Transcoding timed out after 30 seconds"
ErrTransport == "fetch failed"
ErrBody == "Cannot read properties of undefined"
ErrNoVoice == "No voices configured for audio generation"
ErrAudio == "Audio generation failed"
ErrImport == "Cannot find module"
ErrDisk == "ENOSPC: no space left on device"
ErrCreate == "Failed to create card"
ErrUpdate == "Failed to update card"

----------------------------------------------------------------------------
\* Pure helpers of library.ts

\* chapterNumber.toString().padStart(2, '0')
Pad2(n) == IF n < 10 THEN "0" \o ToString(n) ELSE ToString(n)

\* the icon createChapterFromStory and updateHeroCard give every chapter
chapterIcon == "yoto:#gTMbacpoeSMYqc9fNLJnxPjylraNG6jIrYEWevyzYbA"

\* the story's title in title case
titleCaseTitle == "Mia's Space Adventure"

Track(t) == [key |-> "01", title |-> titleCaseTitle,
             trackUrl |-> t.transcodedSha256,
             duration |-> t.duration, fileSize |-> t.fileSize,
             channels |-> "stereo", format |-> "aac", type |-> "audio",
             overlayLabel |-> "1", remoteOnly |-> FALSE]

createChapterFromStory(t, chapterNumber) ==
    [key |-> Pad2(chapterNumber),
     title |-> titleCaseTitle,
     overlayLabel |-> ToString(chapterNumber),
     tracks |-> <<Track(t)>>,
     icon |-> chapterIcon,
     remoteOnly |-> FALSE]

\* the re-serialisation of an existing chapter: the fields named are copied
\* as read, display is set to the one icon, every other field (remoteOnly)
\* is left out
CleanChapter(chapter) ==
    [key |-> chapter.key,
     title |-> chapter.title,
     overlayLabel |-> chapter.overlayLabel,
     tracks |-> [i \in DOMAIN chapter.tracks |->
                   [key |-> chapter.tracks[i].key,
                    title |-> chapter.tracks[i].title,
                    trackUrl |-> chapter.tracks[i].trackUrl,
                    duration |-> chapter.tracks[i].duration,
                    fileSize |-> chapter.tracks[i].fileSize,
                    channels |-> chapter.tracks[i].channels,
                    format |-> chapter.tracks[i].format,
                    type |-> chapter.tracks[i].type,
                    overlayLabel |-> chapter.tracks[i].overlayLabel,
                    remoteOnly |-> FALSE]],
     icon |-> chapterIcon,
     remoteOnly |-> FALSE]

cleanExistingChapters(existingChapters) ==
    [i \in DOMAIN existingChapters |-> CleanChapter(existingChapters[i])]

\* a mutant: the existing chapters are forgotten
AllChaptersOnlyNew(cleanChapters, newChapter) == <<newChapter>>

allChapters(cleanChapters, newChapter) == Append(cleanChapters, newChapter)

\* fullCard.content?.chapters || []
existingChaptersOf(card) == IF card.hasContent THEN card.chapters ELSE <<>>

\* fullCard.metadata?.media?.duration || 0
existingDuration(card) == IF card.media.has THEN card.media.duration ELSE 0

existingFileSize(card) == IF card.media.has THEN card.media.fileSize ELSE 0

\* a mutant: the card takes the story's title
CreatePayloadStoryTitle(t) ==
    [sent |-> TRUE, kind |-> "create", cardId |-> 0, title |-> "The Dragon's Cave",
     chapters |-> <<createChapterFromStory(t, 1)>>,
     media |-> [has |-> TRUE, duration |-> t.duration, fileSize |-> t.fileSize]]

createPayload(t) ==
    [sent |-> TRUE, kind |-> "create", cardId |-> 0, title |-> HERO_CARD_TITLE,
     chapters |-> <<createChapterFromStory(t, 1)>>,
     media |-> [has |-> TRUE, duration |-> t.duration, fileSize |-> t.fileSize]]

updatePayload(card, t) ==
    LET existing == existingChaptersOf(card)
        nextChapterNumber == Len(existing) + 1
        newChapter == createChapterFromStory(t, nextChapterNumber)
    IN [sent |-> TRUE, kind |-> "update", cardId |-> card.cardId,
        title |-> HERO_CARD_TITLE,
        chapters |-> allChapters(cleanExistingChapters(existing), newChapter),
        media |-> [has |-> TRUE,
                   duration |-> existingDuration(card) + t.duration,
                   fileSize |-> existingFileSize(card) + t.fileSize]]

----------------------------------------------------------------------------
\* The platform's content API, as library.ts uses it

\* GET /content/{cardId}: the card with its chapters
DetailOf(c) == [present |-> TRUE, cardId |-> c.cardId, hasContent |-> TRUE,
                chapters |-> c.chapters, media |-> c.media]

\* the JSON of a 2xx answer to GET /content/{cardId}: the card sits under
\* the key "card", or the card's own fields are the top level of the
\* answer; the card comes with or without an identifier
DetailShapes == {"nested", "flat"}

detailResponse(c, o, shape) ==
    LET card == IF o = "noid" THEN [DetailOf(c) EXCEPT !.cardId = 0] ELSE DetailOf(c)
    IN IF shape = "nested"
       THEN [card |-> card, top |-> NullCard]
       ELSE [card |-> NullCard, top |-> card]

\* a mutant: the card is read from the top level only
CardAtTopLevelOnly(fullCardData) == fullCardData.top

\* fullCardData.card || fullCardData
cardOfResponse(fullCardData) ==
    IF fullCardData.card.present THEN fullCardData.card ELSE fullCardData.top

\* the card taken from a 2xx answer to GET /content/{cardId}
detailBody(c, o, shape) == cardOfResponse(detailResponse(c, o, shape))

\* getHeroCard: if (!fullCard.cardId && !fullCard.id) fullCard.cardId = cardId
withCardId(card, cardId) == IF card.cardId = 0 THEN [card EXCEPT !.cardId = cardId] ELSE card

\* an entry of GET /content/mine: no chapter bodies
SummaryOf(c) == [present |-> TRUE, cardId |-> c.cardId, hasContent |-> FALSE,
                 chapters |-> <<>>, media |-> NoMedia]

IsHero(c) == c.title = HERO_CARD_TITLE

\* data.cards?.filter(card => card.title === HERO_CARD_TITLE)
existingCards(cs) == SelectSeq(cs, IsHero)

\* a mutant: the first card of the list, whatever its age
FirstCard(found) == found[1]

\* existingCards.sort((a, b) => b.createdAt - a.createdAt)[0]: the sort is
\* stable, so the first of the most recent cards wins
mostRecentCard(found) ==
    LET newest == CHOOSE t \in {found[i].createdAt : i \in DOMAIN found} :
                      \A i \in DOMAIN found : found[i].createdAt <= t
        first == CHOOSE i \in DOMAIN found :
                      /\ found[i].createdAt = newest
                      /\ \A j \in DOMAIN found : found[j].createdAt = newest => i <= j
    IN found[first]

CardById(cs, id) == cs[CHOOSE i \in DOMAIN cs : cs[i].cardId = id]

NextStamp(cs) ==
    IF cs = <<>> THEN 1
    ELSE 1 + (CHOOSE t \in {cs[i].createdAt : i \in DOMAIN cs} :
                  \A i \in DOMAIN cs : cs[i].createdAt <= t)

\* POST /content: a body without cardId creates a card, a body with one
\* replaces that card's document
ContentWrite(cs, body) ==
    IF body.cardId = 0
    THEN Append(cs, [cardId |-> Len(cs) + 1, title |-> body.title,
                     createdAt |-> NextStamp(cs),
                     chapters |-> body.chapters, media |-> body.media])
    ELSE [i \in DOMAIN cs |->
            IF cs[i].cardId = body.cardId
            THEN [cs[i] EXCEPT !.title = body.title,
                               !.chapters = body.chapters,
                               !.media = body.media]
            ELSE cs[i]]

\* result.cardId || result.id of the answer to POST /content
writtenCardId(cs, body) == IF body.cardId = 0 THEN Len(cs) + 1 ELSE body.cardId

\* sums over every track of every chapter
RECURSIVE SumTracks(_, _)
SumTracks(tracks, field) ==
    IF tracks = <<>> THEN 0
    ELSE (IF field = "duration" THEN Head(tracks).duration ELSE Head(tracks).fileSize)
         + SumTracks(Tail(tracks), field)

RECURSIVE SumChapters(_, _)
SumChapters(chapters, field) ==
    IF chapters = <<>> THEN 0
    ELSE SumTracks(Head(chapters).tracks, field) + SumChapters(Tail(chapters), field)

----------------------------------------------------------------------------
\* The accounts a run may find

\* a hero card of n chapters: "clean" as this program writes them, with
\* contiguous keys and an exact aggregate; "drifted" as the platform's own
\* editor leaves them, with a gap in the keys, an icon of the user's
\* choice, fields this program does not know, and an aggregate that is
\* missing (n = 0), zero (n = 1) or stale (n >= 2)
InitialChapters(n, shape) ==
    [i \in 1..n |->
       [key |-> IF shape = "clean" THEN Pad2(i) ELSE Pad2(2 * i - 1),
        title |-> "Story " \o ToString(i),
        overlayLabel |-> ToString(i),
        tracks |-> <<[key |-> "01", title |-> "Story " \o ToString(i),
                      trackUrl |-> 50 + i,
                      duration |-> 5 + i, fileSize |-> 40 + i,
                      channels |-> IF shape = "clean" THEN "stereo" ELSE "mono",
                      format |-> IF shape = "clean" THEN "aac" ELSE "mp3",
                      type |-> "audio", overlayLabel |-> "1",
                      remoteOnly |-> shape # "clean"]>>,
        icon |-> IF shape = "clean" THEN chapterIcon ELSE "yoto:#userChosenIcon",
        remoteOnly |-> shape # "clean"]]

InitialMedia(n, shape) ==
    LET chapters == InitialChapters(n, shape)
    IN IF shape = "clean"
       THEN [has |-> TRUE, duration |-> SumChapters(chapters, "duration"),
             fileSize |-> SumChapters(chapters, "fileSize")]
       ELSE IF n = 0 THEN NoMedia
       ELSE IF n = 1 THEN [has |-> TRUE, duration |-> 0, fileSize |-> 0]
       ELSE [has |-> TRUE, duration |-> chapters[1].tracks[1].duration,
             fileSize |-> chapters[1].tracks[1].fileSize]

InitialCard(n, shape) ==
    [cardId |-> 1, title |-> HERO_CARD_TITLE, createdAt |-> 1,
     chapters |-> InitialChapters(n, shape), media |-> InitialMedia(n, shape)]

InitialAccounts ==
    {<<>>} \cup {<<InitialCard(n, shape)>> : n \in 0..MaxExisting, shape \in {"clean", "drifted"}}

\* accounts of several cards: some carry the well-known title, some a title
\* that differs from it in case only, and creation times may coincide
Titles == {HERO_CARD_TITLE, "You're the hero!"}

AccountCard(id, title, createdAt) ==
    [cardId |-> id, title |-> title, createdAt |-> createdAt,
     chapters |-> InitialChapters(1, "clean"), media |-> InitialMedia(1, "clean")]

AccountsOf(n) ==
    {[i \in 1..n |-> AccountCard(i, title[i], createdAt[i])] :
        title \in [1..n -> Titles], createdAt \in [1..n -> 1..MaxCards]}

FindAccounts == UNION {AccountsOf(n) : n \in 0..MaxCards}

----------------------------------------------------------------------------
\* What a request can come back with

\* GET uploadUrl: a 2xx body with a URL; non-2xx; a rejected fetch; a 2xx body
\* without the upload object; a 2xx body whose upload object has no uploadUrl
SlotOutcomes == {"ok", "notok", "throw", "nobody", "nourl"}

PutOutcomes == {"ok", "notok", "throw"}

\* GET transcoded: 2xx with a hash; 2xx with a transcode object and no hash
\* yet; non-2xx; a rejected fetch; a 2xx body without the transcode object
PollOutcomes == {"ready", "pending", "notok", "throw", "malformed"}

ReadOutcomes == {"ok", "notok", "throw"}

\* GET /content/{cardId}: as ReadOutcomes, and a 2xx body whose card carries
\* neither cardId nor id
DetailOutcomes == {"ok", "noid", "notok", "throw"}

WriteOutcomes == {"ok", "notok", "throw"}

TtsOutcomes == {"ok", "novoice", "fail", "throw"}

DiskOutcomes == {"ok", "error"}

----------------------------------------------------------------------------
\* uploadAudioToYoto

UploadOk(t) == [kind |-> "ok", transcodedAudio |-> t, error |-> ""]

\* the catch of uploadAudioToYoto: { success: false, error }
UploadFailure(msg) == [kind |-> "fail", transcodedAudio |-> NoTranscode, error |-> msg]

\* a mutant: the missing uploadUrl goes unnoticed
SlotUsableUnchecked(o) == o \in {"ok", "nourl"}

\* the upload-slot response lets the upload go on: it is 2xx, the body
\* destructures and audioUploadUrl is truthy
slotUsable(o) == o = "ok"

slotError(o) ==
    IF o = "notok" THEN ErrUploadUrl
    ELSE IF o = "throw" THEN ErrTransport
    ELSE IF o = "nobody" THEN ErrBody
    ELSE ErrNoUploadUrl

\* a mutant: the loop polls on after the hash was seen
PollNeverBreaks(o) == FALSE

\* the break of the poll loop: the response is ok and carries a hash
pollBreaks(o) == o = "ready"

\* after the loop: the transcode found, or the timeout
afterLoop(found) ==
    IF found.transcodedSha256 # 0 THEN UploadOk(found) ELSE UploadFailure(ErrTimeout)

\* a file of the cache directory: there or not; what JSON.parse makes of it;
\* the entry, when that is an object
NoCacheFile == [has |-> FALSE, json |-> "none", entry |-> NoTranscode]

\* cacheData of cacheTranscode, as it is written and parsed again
cacheData(t) ==
    [transcodedSha256 |-> t.transcodedSha256, duration |-> t.duration,
     fileSize |-> t.fileSize]

\* null, as getCachedTranscode returns it
CacheMiss == [hit |-> FALSE, cached |-> NoTranscode]

\* getCachedTranscode on the file of its key: null outside development and
\* when the file is missing, unreadable or does not parse; otherwise the
\* object the file parses to, whatever it holds
readCacheFile(dev, file, read) ==
    IF ~dev THEN CacheMiss
    ELSE IF file.has /\ read = "ok" /\ file.json = "object"
    THEN [hit |-> TRUE, cached |-> file.entry]
    ELSE CacheMiss

getCachedTranscode(read) == readCacheFile(isDevelopment, hashCache, read)

\* a mutant: the cache is written in production too
WriteCacheFileUngated(dev, file, t, write) ==
    IF write = "ok" THEN [has |-> TRUE, json |-> "object", entry |-> cacheData(t)]
    ELSE file

\* cacheTranscode on the file of its key: a no-op outside development, best
\* effort inside
writeCacheFile(dev, file, t, write) ==
    IF dev /\ write = "ok"
    THEN [has |-> TRUE, json |-> "object", entry |-> cacheData(t)]
    ELSE file

cacheTranscode(t, write) == writeCacheFile(isDevelopment, hashCache, t, write)

\* a mutant: a failed write leaves cacheTranscode as an exception
CacheTranscodeRethrows(write) == write = "error"

\* the catch of cacheTranscode: the failure is logged, nothing is thrown
cacheTranscodeThrows(write) == FALSE

\* what the cache write of a run came to: none outside development
persisted(write) == IF isDevelopment THEN write ELSE "none"

\* a mutant: the outer catch lets the error through
UploadStoryRethrows(msg) == [result |-> NoResult, escaped |-> TRUE]

\* the catch of uploadStoryToYoto: { success: false, error }
uploadStoryCatch(msg) == [result |-> Failure(msg), escaped |-> FALSE]

\* a mutant: the failure of the upload is not looked at
UploadFailureIgnored(ur) == FALSE

\* if (!uploadResult.success) return uploadResult
uploadFailed(ur) == ur.kind = "fail"

\* the call of uploadAudioToYoto goes on to its next request
UploadGoesOn(p, at, found, slot, nAttempts, nPuts, nPolls, seenAt, seenData) ==
    /\ pc' = [pc EXCEPT ![p] = at]
    /\ uploadResult' = [uploadResult EXCEPT ![p].transcodedAudio = found]
    /\ slotResponse' = [slotResponse EXCEPT ![p] = slot]
    /\ attempts' = [attempts EXCEPT ![p] = nAttempts]
    /\ puts' = [puts EXCEPT ![p] = nPuts]
    /\ polls' = [polls EXCEPT ![p] = nPolls]
    /\ hashAt' = [hashAt EXCEPT ![p] = seenAt]
    /\ hashData' = [hashData EXCEPT ![p] = seenData]
    /\ UNCHANGED <<result, escaped, transcodedAudio, hashCache, trace>>

\* uploadAudioToYoto returns ur. Called on its own, the call ends there.
\* Called by uploadStoryToYoto, the caller returns a failure as it is, and
\* caches and keeps a transcode; the call's own counters end with the call.
UploadReturns(p, ur, slot, nAttempts, nPuts, nPolls, seenAt, seenData) ==
    IF caller[p] = "none"
    THEN /\ pc' = [pc EXCEPT ![p] = "uploaded"]
         /\ uploadResult' = [uploadResult EXCEPT ![p] = ur]
         /\ slotResponse' = [slotResponse EXCEPT ![p] = slot]
         /\ attempts' = [attempts EXCEPT ![p] = nAttempts]
         /\ puts' = [puts EXCEPT ![p] = nPuts]
         /\ polls' = [polls EXCEPT ![p] = nPolls]
         /\ hashAt' = [hashAt EXCEPT ![p] = seenAt]
         /\ hashData' = [hashData EXCEPT ![p] = seenData]
         /\ UNCHANGED <<result, escaped, transcodedAudio, hashCache, trace>>
    ELSE /\ uploadResult' = [uploadResult EXCEPT ![p] = NoUpload]
         /\ slotResponse' = [slotResponse EXCEPT ![p] = "none"]
         /\ attempts' = [attempts EXCEPT ![p] = 0]
         /\ puts' = [puts EXCEPT ![p] = 0]
         /\ polls' = [polls EXCEPT ![p] = 0]
         /\ hashAt' = [hashAt EXCEPT ![p] = 0]
         /\ hashData' = [hashData EXCEPT ![p] = NoTranscode]
         /\ IF uploadFailed(ur)
            THEN /\ result' = [result EXCEPT ![p] = Failure(ur.error)]
                 /\ pc' = [pc EXCEPT ![p] = "done"]
                 /\ UNCHANGED <<escaped, transcodedAudio, hashCache, trace>>
            ELSE /\ transcodedAudio' = [transcodedAudio EXCEPT ![p] = ur.transcodedAudio]
                 /\ \E write \in DiskOutcomes :
                      /\ hashCache' = cacheTranscode(ur.transcodedAudio, write)
                      /\ trace' = [trace EXCEPT ![p].cacheWrite = persisted(write)]
                      /\ IF isDevelopment /\ cacheTranscodeThrows(write)
                         THEN /\ result' = [result EXCEPT ![p] = uploadStoryCatch(ErrDisk).result]
                              /\ escaped' = [escaped EXCEPT ![p] = uploadStoryCatch(ErrDisk).escaped]
                              /\ pc' = [pc EXCEPT ![p] = "done"]
                         ELSE /\ pc' = [pc EXCEPT ![p] = "list"]
                              /\ UNCHANGED <<result, escaped>>

RequestUploadUrl(p) ==
    /\ pc[p] = "slot"
    /\ \E o \in SlotOutcomes :
         IF slotUsable(o)
         THEN UploadGoesOn(p, "put", NoTranscode, o, 0, 0, 0, 0, NoTranscode)
         ELSE UploadReturns(p, UploadFailure(slotError(o)), o, 0, 0, 0, 0, NoTranscode)
    /\ requests' = [requests EXCEPT ![p] = @ \cup {"slot"}]
    /\ UNCHANGED <<cards, isDevelopment, caller, existingCard, fullCard,
                   payload, atCall, overlap, cards0, lookup, tokenVars, authVars, helperVars>>

PutAudio(p) ==
    /\ pc[p] = "put"
    /\ \E o \in PutOutcomes :
         IF o = "ok"
         THEN UploadGoesOn(p, "poll", NoTranscode, slotResponse[p], 0,
                           puts[p] + 1, 0, 0, NoTranscode)
         ELSE UploadReturns(p, UploadFailure(IF o = "throw" THEN ErrTransport ELSE ErrPut),
                            slotResponse[p], 0, puts[p] + 1, 0, 0, NoTranscode)
    /\ requests' = [requests EXCEPT ![p] = @ \cup {"put"}]
    /\ UNCHANGED <<cards, isDevelopment, caller, existingCard, fullCard,
                   payload, atCall, overlap, cards0, lookup, tokenVars, authVars, helperVars>>

\* one pass of while (attempts < maxAttempts), with what follows the loop
\* when this pass is its last
PollTranscode(p) ==
    /\ pc[p] = "poll"
    /\ attempts[p] < maxAttempts
    /\ \E o \in PollOutcomes :
         LET data == TranscodeOf(p)
             found == IF o = "ready" THEN data ELSE uploadResult[p].transcodedAudio
             next == attempts[p] + 1
             nPolls == polls[p] + 1
             seenAt == IF o = "ready" /\ hashAt[p] = 0 THEN nPolls ELSE hashAt[p]
             seenData == IF o = "ready" /\ hashAt[p] = 0 THEN data ELSE hashData[p]
         IN IF o \in {"throw", "malformed"}
            THEN UploadReturns(p, UploadFailure(IF o = "throw" THEN ErrTransport ELSE ErrBody),
                               slotResponse[p], attempts[p], puts[p], nPolls, seenAt, seenData)
            ELSE IF pollBreaks(o)
            THEN UploadReturns(p, afterLoop(found), slotResponse[p], attempts[p],
                               puts[p], nPolls, seenAt, seenData)
            ELSE IF next < maxAttempts
            THEN UploadGoesOn(p, "poll", found, slotResponse[p], next, puts[p],
                              nPolls, seenAt, seenData)
            ELSE UploadReturns(p, afterLoop(found), slotResponse[p], next, puts[p],
                               nPolls, seenAt, seenData)
    /\ requests' = [requests EXCEPT ![p] = @ \cup {"poll"}]
    /\ UNCHANGED <<cards, isDevelopment, caller, existingCard, fullCard,
                   payload, atCall, overlap, cards0, lookup, tokenVars, authVars, helperVars>>

----------------------------------------------------------------------------
\* uploadStoryToYoto

NotCalled == [called |-> FALSE, chapters |-> <<>>]

\* the catch of updateHeroCard and of createHeroCard
cardCatch(msg) == Failure(msg)

\* a mutant: the cached transcode is never used
CacheHitIgnored(got) == FALSE

\* let transcodedAudio = await getCachedTranscode(cacheKey); the synthesis
\* and the upload are skipped unless (!transcodedAudio)
cacheHit(got) == got.hit

\* a mutant: a failed synthesis goes on to the upload
AudioUsableUnchecked(o) == o \in {"ok", "fail"}

\* a voice was picked, and audioResult.success && audioResult.audioBuffer
audioUsable(o) == o = "ok"

NoTrace == [cached |-> CacheMiss, read |-> FALSE, synthesis |-> "none", cacheWrite |-> "none"]

CacheLookup(p) ==
    /\ pc[p] = "start"
    /\ overlap' = (overlap \/ \E q \in Runs \ {p} : pc[q] \notin {"start", "done"})
    /\ \E read \in DiskOutcomes :
         LET got == getCachedTranscode(read)
         IN /\ trace' = [trace EXCEPT ![p].cached = got, ![p].read = TRUE]
            /\ IF cacheHit(got)
               THEN /\ transcodedAudio' = [transcodedAudio EXCEPT ![p] = got.cached]
                    /\ pc' = [pc EXCEPT ![p] = "list"]
               ELSE /\ pc' = [pc EXCEPT ![p] = "tts"]
                    /\ UNCHANGED transcodedAudio
    /\ UNCHANGED <<requests, cards, hashCache, isDevelopment, caller, attempts, uploadResult,
                   existingCard, fullCard, result, escaped, slotResponse, puts,
                   polls, hashAt, hashData, payload, atCall, cards0, lookup, tokenVars, authVars, helperVars>>

\* the import of the TTS module (which may throw), getRandomVoiceId (which
\* may find no voice) and generateAudio with its request
Synthesize(p) ==
    /\ pc[p] = "tts"
    /\ \E o \in TtsOutcomes :
         /\ trace' = [trace EXCEPT ![p].synthesis = o]
         /\ requests' = [requests EXCEPT ![p] =
                IF o \in {"ok", "fail"} THEN @ \cup {"tts"} ELSE @]
         /\ IF o = "throw"
            THEN /\ pc' = [pc EXCEPT ![p] = "done"]
                 /\ result' = [result EXCEPT ![p] = uploadStoryCatch(ErrImport).result]
                 /\ escaped' = [escaped EXCEPT ![p] = uploadStoryCatch(ErrImport).escaped]
            ELSE IF audioUsable(o)
            THEN /\ pc' = [pc EXCEPT ![p] = "slot"]
                 /\ UNCHANGED <<result, escaped>>
            ELSE /\ pc' = [pc EXCEPT ![p] = "done"]
                 /\ result' = [result EXCEPT ![p] =
                        Failure(IF o = "novoice" THEN ErrNoVoice ELSE ErrAudio)]
                 /\ UNCHANGED escaped
    /\ UNCHANGED <<cards, hashCache, isDevelopment, caller, attempts, uploadResult,
                   transcodedAudio, existingCard, fullCard, slotResponse, puts,
                   polls, hashAt, hashData, payload, atCall, overlap, cards0,
                   lookup, tokenVars, authVars, helperVars>>

NoLookup == [list |-> "none", detail |-> "none", cardId |-> 0,
             shape |-> "none", chapters |-> <<>>]

\* a mutant: the card found is ignored and a card is created
CardStepAlwaysCreates(card) == "createHeroCard"

\* uploadStoryToYoto's step 3: if (existingCard) updateHeroCard, else
\* createHeroCard
cardStep(card) == IF card.present THEN "updateHeroCard" ELSE "createHeroCard"

\* getHeroCard returns card. Called on its own, the call ends there. Called
\* by uploadStoryToYoto, the caller enters createHeroCard or updateHeroCard,
\* whose fullCard starts as the card passed in.
HeroCardReturns(p, card, remoteChapters, seen) ==
    /\ existingCard' = [existingCard EXCEPT ![p] = card]
    /\ IF caller[p] = "none"
       THEN /\ pc' = [pc EXCEPT ![p] = "found"]
            /\ lookup' = [lookup EXCEPT ![p] = seen]
            /\ UNCHANGED <<fullCard, atCall>>
       ELSE /\ lookup' = [lookup EXCEPT ![p] = NoLookup]
            /\ IF cardStep(card) = "createHeroCard"
               THEN /\ pc' = [pc EXCEPT ![p] = "create"]
                    /\ UNCHANGED <<fullCard, atCall>>
               ELSE /\ fullCard' = [fullCard EXCEPT ![p] = card]
                    /\ atCall' = [atCall EXCEPT ![p] =
                           [called |-> TRUE, chapters |-> remoteChapters]]
                    /\ pc' = [pc EXCEPT ![p] =
                           IF card.hasContent THEN "write" ELSE "refetch"]

\* getHeroCard, up to its first request: GET /content/mine
ListCards(p) ==
    /\ pc[p] = "list"
    /\ \E o \in ReadOutcomes :
         LET found == existingCards(cards)
         IN IF o = "ok" /\ found # <<>>
            THEN /\ existingCard' = [existingCard EXCEPT ![p] = SummaryOf(mostRecentCard(found))]
                 /\ lookup' = [lookup EXCEPT ![p] =
                        [NoLookup EXCEPT !.list = o,
                                         !.cardId = mostRecentCard(found).cardId]]
                 /\ pc' = [pc EXCEPT ![p] = "detail"]
                 /\ UNCHANGED <<fullCard, atCall>>
            ELSE HeroCardReturns(p, NullCard, <<>>, [NoLookup EXCEPT !.list = o])
    /\ requests' = [requests EXCEPT ![p] = @ \cup {"list"}]
    /\ UNCHANGED <<cards, hashCache, isDevelopment, caller, attempts, uploadResult,
                   transcodedAudio, result, escaped, slotResponse, puts,
                   polls, hashAt, hashData, payload, overlap, cards0, trace,
                   tokenVars, authVars, helperVars>>

\* what a detail request was answered with: the outcome and, for a 2xx
\* answer, the shape of the JSON and the chapters the platform held
detailSeen(seen, o, shape, remote) ==
    IF o \in {"ok", "noid"}
    THEN [seen EXCEPT !.detail = o, !.shape = shape, !.chapters = remote.chapters]
    ELSE [seen EXCEPT !.detail = o]

\* getHeroCard's second request, GET /content/{cardId}: the full card when
\* the response is ok, the list's card when it is not, null from the catch
FetchDetail(p) ==
    /\ pc[p] = "detail"
    /\ \E o \in DetailOutcomes, shape \in DetailShapes :
         LET cardId == existingCard[p].cardId
             remote == CardById(cards, cardId)
             seen == detailSeen(lookup[p], o, shape, remote)
         IN IF o = "throw"
            THEN HeroCardReturns(p, NullCard, <<>>, seen)
            ELSE HeroCardReturns(p, IF o = "notok" THEN existingCard[p]
                                    ELSE withCardId(detailBody(remote, o, shape), cardId),
                                 remote.chapters, seen)
    /\ requests' = [requests EXCEPT ![p] = @ \cup {"detail"}]
    /\ UNCHANGED <<cards, hashCache, isDevelopment, caller, attempts, uploadResult,
                   transcodedAudio, result, escaped, slotResponse, puts, polls,
                   hashAt, hashData, payload, overlap, cards0, trace, tokenVars,
                   authVars, helperVars>>

\* updateHeroCard's own GET /content/{cardId}, for a card without chapters
RefetchDetail(p) ==
    /\ pc[p] = "refetch"
    /\ \E o \in DetailOutcomes, shape \in DetailShapes :
         LET remote == CardById(cards, existingCard[p].cardId)
         IN /\ IF o = "throw"
               THEN /\ result' = [result EXCEPT ![p] = cardCatch(ErrTransport)]
                    /\ pc' = [pc EXCEPT ![p] = "done"]
                    /\ UNCHANGED fullCard
               ELSE /\ fullCard' = [fullCard EXCEPT ![p] =
                           IF o = "notok" THEN @ ELSE detailBody(remote, o, shape)]
                    /\ pc' = [pc EXCEPT ![p] = "write"]
                    /\ UNCHANGED result
            /\ lookup' = IF caller[p] = "none"
                         THEN [lookup EXCEPT ![p] = detailSeen(@, o, shape, remote)]
                         ELSE lookup
    /\ requests' = [requests EXCEPT ![p] = @ \cup {"refetch"}]
    /\ UNCHANGED <<trace, cards, hashCache, isDevelopment, caller, attempts, uploadResult,
                   transcodedAudio, existingCard, escaped, slotResponse, puts,
                   polls, hashAt, hashData, payload, atCall, overlap, cards0,
                   tokenVars, authVars, helperVars>>

\* a mutant: a card that could not be updated is created anew
CreateWhenUpdateFails(o) == IF o = "ok" THEN "done" ELSE "create"

\* return await updateHeroCard(...): whatever the write came to, the run
\* ends with it
afterUpdate(o) == "done"

\* updateHeroCard from the merge to its return
PostUpdate(p) ==
    /\ pc[p] = "write"
    /\ LET body == updatePayload(fullCard[p], transcodedAudio[p])
       IN /\ payload' = [payload EXCEPT ![p] = body]
          /\ \E o \in WriteOutcomes :
               /\ pc' = [pc EXCEPT ![p] = afterUpdate(o)]
               /\ IF o = "ok"
                  THEN /\ cards' = ContentWrite(cards, body)
                       /\ result' = [result EXCEPT ![p] =
                              Success(writtenCardId(cards, body), transcodedAudio[p])]
                  ELSE /\ result' = [result EXCEPT ![p] =
                              cardCatch(IF o = "throw" THEN ErrTransport ELSE ErrUpdate)]
                       /\ UNCHANGED cards
    /\ requests' = [requests EXCEPT ![p] = @ \cup {"write"}]
    /\ UNCHANGED <<trace, hashCache, isDevelopment, caller, attempts, uploadResult, transcodedAudio,
                   existingCard, fullCard, escaped, slotResponse, puts, polls,
                   hashAt, hashData, atCall, overlap, cards0, lookup, tokenVars, authVars, helperVars>>

\* createHeroCard
PostCreate(p) ==
    /\ pc[p] = "create"
    /\ LET body == createPayload(transcodedAudio[p])
       IN /\ payload' = [payload EXCEPT ![p] = body]
          /\ \E o \in WriteOutcomes :
               IF o = "ok"
               THEN /\ cards' = ContentWrite(cards, body)
                    /\ result' = [result EXCEPT ![p] =
                           Success(writtenCardId(cards, body), transcodedAudio[p])]
               ELSE /\ result' = [result EXCEPT ![p] =
                           cardCatch(IF o = "throw" THEN ErrTransport ELSE ErrCreate)]
                    /\ UNCHANGED cards
    /\ pc' = [pc EXCEPT ![p] = "done"]
    /\ requests' = [requests EXCEPT ![p] = @ \cup {"write"}]
    /\ UNCHANGED <<trace, hashCache, isDevelopment, caller, attempts, uploadResult, transcodedAudio,
                   existingCard, fullCard, escaped, slotResponse, puts, polls,
                   hashAt, hashData, atCall, overlap, cards0, lookup, tokenVars, authVars, helperVars>>

----------------------------------------------------------------------------
\* The token helpers (part_002)

NoToken == [decodable |-> FALSE, hasExp |-> FALSE, exp |-> 0]

NoCheck == [done |-> FALSE, at |-> 0, answer |-> FALSE]

\* a mutant: the boundary expiry = now + 5 minutes counts as still valid
IsTokenExpiredStrict(token, currentTime) ==
    IF ~token.decodable THEN TRUE
    ELSE IF ~token.hasExp THEN FALSE
    ELSE token.exp * 1000 < currentTime + fiveMinutesInMs

\* jwtDecode throws on an undecodable token; a payload without exp gives
\* NaN, and NaN <= x is false
isTokenExpired(token, currentTime) ==
    IF ~token.decodable THEN TRUE
    ELSE IF ~token.hasExp THEN FALSE
    ELSE token.exp * 1000 <= currentTime + fiveMinutesInMs

\* the clock of the token specification, in milliseconds
StartMs == 1000000

TickMs == 500

\* expiry claims, in seconds, on both sides of the five-minute margin
TokenExpiries == {(StartMs + fiveMinutesInMs) \div 1000 + d : d \in -1..3}

Tokens ==
    {NoToken, [decodable |-> TRUE, hasExp |-> FALSE, exp |-> 0]}
    \cup {[decodable |-> TRUE, hasExp |-> TRUE, exp |-> e] : e \in TokenExpiries}

CheckToken ==
    /\ tokenCheck' = [done |-> TRUE, at |-> now,
                      answer |-> isTokenExpired(accessToken, now)]
    /\ UNCHANGED <<now, accessToken, flowVars, authVars, helperVars>>

Tick ==
    /\ now < StartMs + MaxTicks * TickMs
    /\ now' = now + TickMs
    /\ UNCHANGED <<accessToken, tokenCheck, flowVars, authVars, helperVars>>

----------------------------------------------------------------------------
\* ensureValidToken and refreshAccessToken (part_002)

\* tokenData: null, or an object whose access_token and refresh_token may be
\* missing (or empty, which the code treats alike)
NullPair == [isNull |-> TRUE, hasAccess |-> FALSE, access_token |-> NoToken,
             hasRefresh |-> FALSE]

TokenPairs ==
    {NullPair}
    \cup {[isNull |-> FALSE, hasAccess |-> FALSE, access_token |-> NoToken,
           hasRefresh |-> r] : r \in BOOLEAN}
    \cup {[isNull |-> FALSE, hasAccess |-> TRUE, access_token |-> t,
           hasRefresh |-> r] : t \in Tokens, r \in BOOLEAN}

\* what a call came to: nothing yet, a value returned, or an error thrown
NoOutcome == [kind |-> "none", token |-> NoToken, error |-> "", message |-> ""]

Returned(t) == [kind |-> "token", token |-> t, error |-> "", message |-> ""]

\* refreshedTokens.access_token of a body that holds no access_token
ReturnedUndefined == [kind |-> "undefined", token |-> NoToken, error |-> "", message |-> ""]

\* the token response's body, as exchangeCodeForTokens returns it
ReturnedTokens == [kind |-> "tokens", token |-> NoToken, error |-> "", message |-> ""]

Thrown(class, msg) == [kind |-> "error", token |-> NoToken, error |-> class, message |-> msg]

\* the access token of a refresh response, good for an hour
RefreshedToken(at) == [decodable |-> TRUE, hasExp |-> TRUE, exp |-> at \div 1000 + 3600]

\* POST /oauth/token with grant_type=refresh_token: 2xx with tokens; 2xx with
\* a body without access_token; 2xx with a body that is not JSON; non-2xx; a
\* rejected fetch
RefreshOutcomes == {"ok", "noaccess", "badjson", "notok", "throw"}

RefreshRequest == [grant_type |-> "refresh_token", credentials |-> "body"]

\* refreshAccessToken, as ensureValidToken uses its result
refreshAccessToken(o, at) ==
    IF o = "ok" THEN Returned(RefreshedToken(at))
    ELSE IF o = "noaccess" THEN ReturnedUndefined
    ELSE IF o = "badjson" THEN Thrown("SyntaxError", "Unexpected token")
    ELSE IF o = "notok" THEN Thrown("AuthenticationError", "Token refresh failed: invalid_grant")
    ELSE Thrown("TypeError", ErrTransport)

\* a mutant: the catch around the refresh lets the error through
EnsureCatchRethrows(err) == err

\* the catch around the refresh in ensureValidToken
ensureCatch(err) ==
    Thrown("AuthenticationError", "Token refresh failed - please re-authenticate")

\* a mutant: no token is used as it is
NeverStillValid(token, currentTime) == FALSE

\* the access token is used as it is: !isTokenExpired(tokenData.access_token)
stillValid(token, currentTime) == ~isTokenExpired(token, currentTime)

\* ensureValidToken goes on to its refresh request
NeedsRefresh == [kind |-> "refresh", token |-> NoToken, error |-> "", message |-> ""]

\* ensureValidToken before its request: what it returns or throws, or that
\* it goes on to refresh
ensureChecks(pair, at, hasClientId) ==
    IF pair.isNull \/ ~pair.hasAccess
    THEN Thrown("AuthenticationError", "No access token available")
    ELSE IF stillValid(pair.access_token, at)
    THEN Returned(pair.access_token)
    ELSE IF ~pair.hasRefresh
    THEN Thrown("AuthenticationError", "Token expired and no refresh token available")
    ELSE IF ~hasClientId
    THEN Thrown("ConfigurationError", "YOTO_CLIENT_ID not configured")
    ELSE NeedsRefresh

\* a mutant: the refreshed access token replaces the one of the pair
StoresRefreshedToken(pair, refreshed) ==
    IF refreshed.kind = "token" THEN [pair EXCEPT !.access_token = refreshed.token] ELSE pair

\* the pair after the refresh: refreshedTokens is neither written into
\* tokenData nor saved elsewhere
pairAfterRefresh(pair, refreshed) == pair

\* ensureValidToken up to its return, its throw or its refresh request
EnsureStart ==
    /\ ensurePc = "start"
    /\ ensureAt' = now
    /\ LET checked == ensureChecks(tokenData, now, clientId)
       IN IF checked = NeedsRefresh
          THEN /\ ensurePc' = "refresh"
               /\ UNCHANGED ensureResult
          ELSE /\ ensureResult' = checked
               /\ ensurePc' = "done"
    /\ UNCHANGED <<tokenData, clientId, exchangePc, exchangeResult, tokenRequests,
                   tokenResponses, flowVars, tokenVars, helperVars>>

\* the refresh request and what ensureValidToken makes of its response
EnsureRefresh ==
    /\ ensurePc = "refresh"
    /\ tokenRequests' = Append(tokenRequests, RefreshRequest)
    /\ \E o \in RefreshOutcomes :
         LET refreshed == refreshAccessToken(o, now)
         IN /\ tokenResponses' = Append(tokenResponses, o)
            /\ ensureResult' = IF refreshed.kind = "error"
                               THEN ensureCatch(refreshed)
                               ELSE refreshed
            /\ tokenData' = pairAfterRefresh(tokenData, refreshed)
    /\ ensurePc' = "done"
    /\ UNCHANGED <<clientId, ensureAt, exchangePc, exchangeResult,
                   flowVars, tokenVars, helperVars>>

----------------------------------------------------------------------------
\* exchangeCodeForTokens (part_002)

\* the body of a non-2xx token response: JSON with error and
\* error_description, JSON with error alone, JSON with neither, or text that
\* is not JSON
NoBody == [json |-> FALSE, error |-> "", error_description |-> "", text |-> ""]

ErrorBodies ==
    {[json |-> TRUE, error |-> "invalid_client", error_description |-> "Invalid client", text |-> ""],
     [json |-> TRUE, error |-> "invalid_grant", error_description |-> "", text |-> ""],
     [json |-> TRUE, error |-> "", error_description |-> "", text |-> ""],
     [json |-> FALSE, error |-> "", error_description |-> "", text |-> "Bad Gateway"]}

\* a response of the token endpoint; status 0 stands for a rejected fetch
TokenResponses ==
    {[status |-> 200, tokens |-> t, body |-> NoBody] : t \in BOOLEAN}
    \cup {[status |-> st, tokens |-> FALSE, body |-> b] : st \in {400, 401, 500}, b \in ErrorBodies}
    \cup {[status |-> 0, tokens |-> FALSE, body |-> NoBody]}

\* response.ok
Ok(response) == response.status \in 200..299

\* the error object: JSON.parse(errorText), or invalid_response with the text
parsedError(body) ==
    IF body.json THEN [error |-> body.error, error_description |-> body.error_description]
    ELSE [error |-> "invalid_response", error_description |-> body.text]

\* `Token exchange failed: ${error.error || 'Unknown error'}${...}`
exchangeMessage(body) ==
    LET error == parsedError(body)
    IN "Token exchange failed: "
       \o (IF error.error # "" THEN error.error ELSE "Unknown error")
       \o (IF error.error_description # "" THEN " - " \o error.error_description ELSE "")

\* a mutant: every failed first request is tried again
RetriesAnyFailure(response) == ~Ok(response)

\* if (!response.ok && response.status === 401)
retriesWithBasic(response) == ~Ok(response) /\ response.status = 401

\* from if (!response.ok) to the return
exchangeEnds(response) ==
    IF response.status = 0 THEN Thrown("TypeError", ErrTransport)
    ELSE IF ~Ok(response) THEN Thrown("Error", exchangeMessage(response.body))
    ELSE IF response.tokens THEN ReturnedTokens
    ELSE Thrown("SyntaxError", "Unexpected token")

\* method 1: the client id in the body
ExchangeBody ==
    /\ exchangePc = "method1"
    /\ tokenRequests' = Append(tokenRequests,
           [grant_type |-> "authorization_code", credentials |-> "body"])
    /\ \E response \in TokenResponses :
         /\ tokenResponses' = Append(tokenResponses, response)
         /\ IF response.status # 0 /\ retriesWithBasic(response)
            THEN /\ exchangePc' = "method2"
                 /\ UNCHANGED exchangeResult
            ELSE /\ exchangePc' = "done"
                 /\ exchangeResult' = exchangeEnds(response)
    /\ UNCHANGED <<tokenData, clientId, ensurePc, ensureResult, ensureAt,
                   flowVars, tokenVars, helperVars>>

\* method 2: HTTP Basic, with the client secret when one is configured
ExchangeBasic ==
    /\ exchangePc = "method2"
    /\ \E secret \in BOOLEAN :
         tokenRequests' = Append(tokenRequests,
             [grant_type |-> "authorization_code",
              credentials |-> IF secret THEN "basic id:secret" ELSE "basic id:"])
    /\ \E response \in TokenResponses :
         /\ tokenResponses' = Append(tokenResponses, response)
         /\ exchangeResult' = exchangeEnds(response)
    /\ exchangePc' = "done"
    /\ UNCHANGED <<tokenData, clientId, ensurePc, ensureResult, ensureAt,
                   flowVars, tokenVars, helperVars>>

----------------------------------------------------------------------------
\* The development cache of library.ts, its helpers called on their own

\* the longest story text, in characters
MaxTextLen == 2

Chars == {" ", "a"}

Texts == UNION {[1..n -> Chars] : n \in 0..MaxTextLen}

RECURSIVE TrimStart(_)
TrimStart(t) == IF t # <<>> /\ Head(t) = " " THEN TrimStart(Tail(t)) ELSE t

RECURSIVE TrimEnd(_)
TrimEnd(t) ==
    IF t # <<>> /\ t[Len(t)] = " " THEN TrimEnd(SubSeq(t, 1, Len(t) - 1)) ELSE t

\* String.prototype.trim
Trim(t) == TrimEnd(TrimStart(t))

\* createHash('md5').update(s).digest('hex'): a number that tells any two
\* texts apart (collisions of md5 are left out)
RECURSIVE Digest(_)
Digest(s) ==
    IF s = <<>> THEN 0 ELSE (IF Head(s) = " " THEN 1 ELSE 2) + 3 * Digest(Tail(s))

\* a mutant: the key is taken of the text as it was given
KeyOfRawText(storyText) == Digest(storyText)

getStoryHashCacheKey(storyText) == Digest(Trim(storyText))

\* the file names the cache directory can hold
CacheKeys == {Digest(t) : t \in Texts}

\* files that cacheTranscode did not write: text that is not JSON, the JSON
\* null, an object without transcodedSha256, an entry of another session
ForeignFiles ==
    {[has |-> TRUE, json |-> "garbage", entry |-> NoTranscode],
     [has |-> TRUE, json |-> "null", entry |-> NoTranscode],
     [has |-> TRUE, json |-> "object", entry |-> NoTranscode],
     [has |-> TRUE, json |-> "object", entry |-> TranscodeOf(9)]}

\* the text whose file may be there from the start
ForeignText == <<"a">>

InitialDirs ==
    {[k \in CacheKeys |-> NoCacheFile]}
    \cup {[k \in CacheKeys |->
             IF k = getStoryHashCacheKey(ForeignText) THEN f ELSE NoCacheFile] :
          f \in ForeignFiles}

NoCachePut == [done |-> FALSE, text |-> <<>>, r |-> NoTranscode, write |-> "none"]

NoCacheGot == [done |-> FALSE, text |-> <<>>, read |-> "none", file |-> NoCacheFile,
               got |-> CacheMiss]

\* cacheTranscode(getStoryHashCacheKey(t), r), r the transcode of the next run
CachePutCall ==
    /\ cachePuts + 1 \in Runs
    /\ \E t \in Texts, write \in DiskOutcomes :
         LET key == getStoryHashCacheKey(t)
             r == TranscodeOf(cachePuts + 1)
         IN /\ cacheDir' = [cacheDir EXCEPT ![key] =
                               writeCacheFile(isDevelopment, @, r, write)]
            /\ storedTexts' = IF isDevelopment /\ write = "ok"
                              THEN storedTexts \cup {t} ELSE storedTexts
            /\ cachePut' = [done |-> TRUE, text |-> t, r |-> r, write |-> write]
    /\ cachePuts' = cachePuts + 1
    /\ cacheGot' = NoCacheGot
    /\ UNCHANGED <<flowVars, tokenVars, authVars, ttsVars, safetyVars, genVars, routeVars, pageVars>>

\* getCachedTranscode(getStoryHashCacheKey(t))
CacheGetCall ==
    /\ \E t \in Texts, read \in DiskOutcomes :
         LET file == cacheDir[getStoryHashCacheKey(t)]
         IN cacheGot' = [done |-> TRUE, text |-> t, read |-> read, file |-> file,
                         got |-> readCacheFile(isDevelopment, file, read)]
    /\ UNCHANGED <<cacheDir, storedTexts, cachePuts, cachePut,
                   flowVars, tokenVars, authVars, ttsVars, safetyVars, genVars, routeVars, pageVars>>

----------------------------------------------------------------------------
\* generateAudio and validateTextLength (lib/tts/elevenlabs.ts)

\* the ceiling of validateTextLength
maxWords == 1000

NullText == [isString |-> FALSE, empty |-> TRUE, words |-> 0]

WordCounts == {1, 2, maxWords - 1, maxWords, maxWords + 1}

\* null, the empty string, a string of white space, and strings of words on
\* both sides of the ceiling
TtsTexts ==
    {NullText,
     [isString |-> TRUE, empty |-> TRUE, words |-> 0],
     [isString |-> TRUE, empty |-> FALSE, words |-> 0]}
    \cup {[isString |-> TRUE, empty |-> FALSE, words |-> w] : w \in WordCounts}

Voices == {"voice-a", "voice-b", "voice-c"}

\* a mutant: no ceiling
ValidateTextLengthNoCeiling(t) ==
    IF ~t.isString \/ t.empty THEN FALSE ELSE t.words >= 1

validateTextLength(t) ==
    IF ~t.isString \/ t.empty THEN FALSE
    ELSE t.words >= 1 /\ t.words <= maxWords

NoAudioResult == [kind |-> "none", byteLength |-> 0, error |-> ""]

\* { success: true, audioBuffer, fromCache: false }
AudioSuccess(byteLength) == [kind |-> "ok", byteLength |-> byteLength, error |-> ""]

\* { success: false, error }
AudioFailure(msg) == [kind |-> "fail", byteLength |-> 0, error |-> msg]

ErrConfiguration == "Service temporarily unavailable due to configuration issues."
ErrTextLength == "Text length invalid for TTS generation"
ErrExternal == "External service temporarily unavailable. Please try again."

\* POST /v1/text-to-speech/{voiceId}: 2xx with audio, 2xx with an empty
\* body, non-2xx, a rejected fetch
TtsResponses == {"audio", "empty", "notok", "throw"}

\* (await response.arrayBuffer()).byteLength
byteLengthOf(o) == IF o = "audio" THEN 3 ELSE 0

\* generateAudio from its response to its return
audioEnds(o) ==
    IF o \in {"notok", "throw"} THEN AudioFailure(ErrExternal)
    ELSE AudioSuccess(byteLengthOf(o))

\* generateAudio up to its request
TtsStart ==
    /\ ttsPc = "start"
    /\ IF ~apiKey
       THEN /\ ttsResult' = AudioFailure(ErrConfiguration)
            /\ ttsPc' = "done"
       ELSE IF ~validateTextLength(ttsText)
       THEN /\ ttsResult' = AudioFailure(ErrTextLength)
            /\ ttsPc' = "done"
       ELSE /\ ttsPc' = "fetch"
            /\ UNCHANGED ttsResult
    /\ UNCHANGED <<apiKey, ttsText, voiceId, ttsRequests,
                   flowVars, tokenVars, authVars, cacheVars, safetyVars, genVars, routeVars, pageVars>>

TtsFetch ==
    /\ ttsPc = "fetch"
    /\ ttsRequests' = ttsRequests + 1
    /\ \E o \in TtsResponses : ttsResult' = audioEnds(o)
    /\ ttsPc' = "done"
    /\ UNCHANGED <<apiKey, ttsText, voiceId,
                   flowVars, tokenVars, authVars, cacheVars, safetyVars, genVars, routeVars, pageVars>>

----------------------------------------------------------------------------
\* generateStory (lib/tts/elevenlabs.ts) and validateContentSafetyWithAI
\* (lib/utils/safety.ts)

SUITABILITY_THRESHOLD == 7

\* the fewest words of a story that validateContentSafetyWithAI lets pass
minStoryWords == 100

NoContent == [empty |-> TRUE, words |-> 0, profane |-> FALSE]

\* what generateStoryContent wrote: nothing, or a story by its number of
\* words after sanitizeInput and whether checkProfanity finds something
StoryContents ==
    {NoContent}
    \cup {[empty |-> FALSE, words |-> w, profane |-> b] :
            w \in {1, minStoryWords - 1, minStoryWords, minStoryWords + 1},
            b \in BOOLEAN}

NoModeration == [kind |-> "none", score |-> 0]

\* the moderation request: an answer with a score of 1 to 10; an answer that
\* is JSON without a score; an answer that is not JSON; non-2xx; a rejected
\* fetch
ModerationOutcomes ==
    {[kind |-> "score", score |-> n] : n \in 1..10}
    \cup {[kind |-> k, score |-> 0] : k \in {"noscore", "unparsable", "notok", "throw"}}

\* a mutant: a score just under the threshold passes
BelowThresholdPasses(score) == score >= SUITABILITY_THRESHOLD - 1

\* result.score >= SUITABILITY_THRESHOLD
meetsThreshold(score) == score >= SUITABILITY_THRESHOLD

NoRating == [threw |-> FALSE, rated |-> FALSE, score |-> 0, isAppropriate |-> FALSE]

\* rateContentSuitability: throws without a key; rates by the score of the
\* answer (undefined >= 7 is false); falls back to score 1 from its catch
rateContentSuitability(key, o) ==
    IF ~key THEN [NoRating EXCEPT !.threw = TRUE]
    ELSE IF o.kind = "score"
    THEN [threw |-> FALSE, rated |-> TRUE, score |-> o.score,
          isAppropriate |-> meetsThreshold(o.score)]
    ELSE IF o.kind = "noscore"
    THEN [threw |-> FALSE, rated |-> TRUE, score |-> 0, isAppropriate |-> FALSE]
    ELSE [threw |-> FALSE, rated |-> TRUE, score |-> 1, isAppropriate |-> FALSE]

NoSafetyCheck == [done |-> FALSE, isValid |-> FALSE, issues |-> {}, wordCount |-> 0]

\* validateContentSafetyWithAI of a story that is not empty, given what
\* rateContentSuitability came to
validateContentSafetyWithAI(content, aiRating) ==
    LET issues ==
            (IF content.words < minStoryWords THEN {"Story too short"} ELSE {})
            \cup (IF content.profane THEN {"Contains inappropriate language"} ELSE {})
            \cup (IF aiRating.threw THEN {"Unable to verify content safety"}
                  ELSE IF ~aiRating.isAppropriate THEN {"Content not suitable"}
                  ELSE {})
    IN [done |-> TRUE, isValid |-> issues = {}, issues |-> issues,
        wordCount |-> content.words]

NoStory == [kind |-> "none", words |-> 0, error |-> ""]

\* generateStory from the safety check to its return or throw
storyEnds(content, check) ==
    IF ~check.isValid
    THEN [kind |-> "thrown", words |-> 0,
          error |-> "Failed to generate story: Generated story failed safety validation"]
    ELSE [kind |-> "story", words |-> check.wordCount, error |-> ""]

\* generateStory up to the moderation request
StoryStart ==
    /\ storyPc = "start"
    /\ IF storyContent.empty
       THEN /\ storyResult' = [kind |-> "thrown", words |-> 0,
                               error |-> "Failed to generate story: AI generated empty story content"]
            /\ storyPc' = "done"
            /\ UNCHANGED safetyCheck
       ELSE IF ~openaiKey
       THEN LET check == validateContentSafetyWithAI(storyContent,
                             rateContentSuitability(openaiKey, NoModeration))
            IN /\ safetyCheck' = check
               /\ storyResult' = storyEnds(storyContent, check)
               /\ storyPc' = "done"
       ELSE /\ storyPc' = "moderate"
            /\ UNCHANGED <<safetyCheck, storyResult>>
    /\ UNCHANGED <<openaiKey, storyContent, moderation,
                   flowVars, tokenVars, authVars, cacheVars, ttsVars, genVars, routeVars, pageVars>>

\* the moderation request, and generateStory to its end
Moderate ==
    /\ storyPc = "moderate"
    /\ \E o \in ModerationOutcomes :
         LET check == validateContentSafetyWithAI(storyContent,
                          rateContentSuitability(openaiKey, o))
         IN /\ moderation' = o
            /\ safetyCheck' = check
            /\ storyResult' = storyEnds(storyContent, check)
    /\ storyPc' = "done"
    /\ UNCHANGED <<openaiKey, storyContent,
                   flowVars, tokenVars, authVars, cacheVars, ttsVars, genVars, routeVars, pageVars>>

----------------------------------------------------------------------------
\* generateStoryContent and the providers (elevenlabs.ts)

Providers == {"openai", "claude"}

\* a provider request: a 2xx answer, a non-2xx answer, a rejected fetch
ProviderOutcomes == {"ok", "notok", "throw"}

NoGenerated == [kind |-> "none", by |-> "none", error |-> ""]

ErrNoProvider == "No AI API key configured. Please set OPENAI_API_KEY or ANTHROPIC_API_KEY"

\* the message of the error a failed provider request throws
providerError(provider, o) ==
    IF o = "throw" THEN "fetch failed"
    ELSE IF provider = "openai" THEN "OpenAI API error" ELSE "Claude API error"

\* the try block: OpenAI when its key is set, else Claude when its key is set
primaryProvider(openai, anthropic) ==
    IF openai THEN "openai" ELSE IF anthropic THEN "claude" ELSE "none"

\* the catch block: Claude when only its key is set, OpenAI when only its
\* key is set
fallbackProvider(openai, anthropic) ==
    IF anthropic /\ ~openai THEN "claude"
    ELSE IF openai /\ ~anthropic THEN "openai"
    ELSE "none"

\* generateStory's catch: the error rethrown with a prefix
storyThrows(error) == [kind |-> "thrown", words |-> 0,
                       error |-> "Failed to generate story: " \o error]

\* generateStoryContent returns content to generateStory
GenReturns(provider, content) ==
    /\ genResult' = [kind |-> "ok", by |-> provider, error |-> ""]
    /\ genPc' = "done"
    /\ storyContent' = content
    /\ storyPc' = "start"
    /\ UNCHANGED storyResult

\* generateStoryContent throws error, which generateStory catches
GenThrows(error) ==
    /\ genResult' = [kind |-> "thrown", by |-> "none", error |-> error]
    /\ genPc' = "done"
    /\ storyResult' = storyThrows(error)
    /\ storyPc' = "done"
    /\ UNCHANGED storyContent

\* generateStoryContent up to the answer to the primary provider's request:
\* it returns the content, or enters the catch block, which throws the
\* error at once when it selects no provider (as it does when no key is set)
GenPrimary ==
    /\ genPc = "start"
    /\ LET provider == primaryProvider(openaiKey, anthropicKey)
           fallback == fallbackProvider(openaiKey, anthropicKey)
       IN IF provider = "none"
          THEN /\ UNCHANGED genCalls
               /\ GenThrows(ErrNoProvider)
          ELSE \E o \in ProviderOutcomes, content \in StoryContents :
                 /\ genCalls' = Append(genCalls, [provider |-> provider, outcome |-> o])
                 /\ IF o = "ok"
                    THEN GenReturns(provider, content)
                    ELSE IF fallback = "none"
                    THEN GenThrows(providerError(provider, o))
                    ELSE /\ genResult' = [kind |-> "failed", by |-> "none",
                                          error |-> providerError(provider, o)]
                         /\ genPc' = "fallback"
                         /\ UNCHANGED <<storyContent, storyPc, storyResult>>
    /\ UNCHANGED <<anthropicKey, openaiKey, moderation, safetyCheck,
                   flowVars, tokenVars, authVars, cacheVars, ttsVars, routeVars, pageVars>>

\* the fallback provider's request: its content is returned, its failure is
\* logged and the primary error thrown
GenFallback ==
    /\ genPc = "fallback"
    /\ LET provider == fallbackProvider(openaiKey, anthropicKey)
       IN \E o \in ProviderOutcomes, content \in StoryContents :
            /\ genCalls' = Append(genCalls, [provider |-> provider, outcome |-> o])
            /\ IF o = "ok"
               THEN GenReturns(provider, content)
               ELSE GenThrows(genResult.error)
    /\ UNCHANGED <<anthropicKey, openaiKey, moderation, safetyCheck,
                   flowVars, tokenVars, authVars, cacheVars, ttsVars, routeVars, pageVars>>

----------------------------------------------------------------------------
\* The send-to-yoto route (route.ts)

\* access tokens on either side of the expiry check at StartMs
ExpiredToken == [decodable |-> TRUE, hasExp |-> TRUE, exp |-> StartMs \div 1000]

FreshToken == [decodable |-> TRUE, hasExp |-> TRUE,
               exp |-> (StartMs + fiveMinutesInMs) \div 1000 + 3600]

\* tokenData with the refresh token it carries ("" when it carries none)
HeaderPair(pair, refresh_token) ==
    [isNull |-> pair.isNull, hasAccess |-> pair.hasAccess,
     access_token |-> pair.access_token, hasRefresh |-> refresh_token # "",
     refresh_token |-> refresh_token]

NullHeaderPair == HeaderPair(NullPair, "")

HeaderPairs ==
    {NullHeaderPair,
     HeaderPair([isNull |-> FALSE, hasAccess |-> FALSE, access_token |-> NoToken], "refresh-1")}
    \cup {HeaderPair([isNull |-> FALSE, hasAccess |-> TRUE, access_token |-> t], rt) :
             t \in {ExpiredToken, FreshToken}, rt \in {"", "refresh-1"}}

NoHeader == [kind |-> "missing", token |-> NoToken, pair |-> NullHeaderPair]

\* the Authorization header: none; one that does not start with "Bearer ";
\* "Bearer " and a bare access token; "Bearer " and the JSON of a token pair
\* (or the JSON null)
Headers ==
    {NoHeader, [NoHeader EXCEPT !.kind = "malformed"]}
    \cup {[kind |-> "plain", token |-> t, pair |-> NullHeaderPair] :
             t \in {ExpiredToken, FreshToken}}
    \cup {[kind |-> "json", token |-> NoToken, pair |-> pair] : pair \in HeaderPairs}

\* if (!authHeader || !authHeader.startsWith('Bearer '))
headerRejected(header) == header.kind \in {"missing", "malformed"}

\* tokenData: the JSON of the header, or { access_token: <the header's text> }
parsedTokenData(header) ==
    IF header.kind = "json" THEN header.pair
    ELSE HeaderPair([isNull |-> FALSE, hasAccess |-> TRUE, access_token |-> header.token], "")

\* the request's body: complete; without story; without storyMetadata (or
\* its childName or adventureType); complete, with no voiceId while no voice
\* is configured; not JSON
Bodies == {"ok", "nostory", "nometadata", "novoice", "badjson"}

\* the status the body is rejected with; 0 when it is accepted
bodyStatus(body) ==
    IF body \in {"nostory", "nometadata"} THEN 400
    ELSE IF body \in {"novoice", "badjson"} THEN 500
    ELSE 0

\* the outer catch: statusCode of the error, normalizeError for the rest
statusOf(err) ==
    IF err.error = "AuthenticationError" THEN 401 ELSE 500

\* the handler returns a response without calling uploadStoryToYoto
RouteResponds(r, statusCode) ==
    /\ routeStatus' = [routeStatus EXCEPT ![r] = statusCode]
    /\ routePc' = [routePc EXCEPT ![r] = "done"]
    /\ UNCHANGED <<pc, overlap>>

\* from request.json() to the call of uploadStoryToYoto
RouteValidates(r) ==
    IF bodyStatus(routeBody[r]) # 0
    THEN RouteResponds(r, bodyStatus(routeBody[r]))
    ELSE /\ routePc' = [routePc EXCEPT ![r] = "upload"]
         /\ pc' = [pc EXCEPT ![r] = "start"]
         /\ UNCHANGED <<routeStatus, overlap>>

\* the handler up to its first outbound request or its response
RouteStart(r) ==
    /\ routePc[r] = "start"
    /\ IF headerRejected(authHeader)
       THEN /\ RouteResponds(r, 401)
            /\ UNCHANGED <<routeToken, routeAccess>>
       ELSE LET tokenData0 == parsedTokenData(authHeader)
                checked == ensureChecks(tokenData0, now, clientId)
            IN /\ routeToken' = [routeToken EXCEPT ![r] = tokenData0]
               /\ IF tokenData0.isNull
                  THEN /\ RouteResponds(r, 500)
                       /\ UNCHANGED routeAccess
                  ELSE IF checked = NeedsRefresh
                  THEN /\ routePc' = [routePc EXCEPT ![r] = "refresh"]
                       /\ UNCHANGED <<routeAccess, routeStatus, pc, overlap>>
                  ELSE IF checked.kind = "error"
                  THEN /\ RouteResponds(r, statusOf(checked))
                       /\ UNCHANGED routeAccess
                  ELSE /\ routeAccess' = [routeAccess EXCEPT ![r] = checked]
                       /\ RouteValidates(r)
    /\ UNCHANGED <<authHeader, routeBody, routeRefresh>>
    /\ UNCHANGED <<cards, hashCache, isDevelopment, caller, attempts, uploadResult,
                   transcodedAudio, existingCard, fullCard, result, escaped,
                   slotResponse, puts, polls, hashAt, hashData, payload, atCall,
                   cards0, lookup, requests, trace>>
    /\ UNCHANGED <<tokenVars, authVars, cacheVars, ttsVars, safetyVars, genVars, pageVars>>

\* ensureValidToken's refresh request, and the handler up to its next
\* outbound request or its response
RouteRefresh(r) ==
    /\ routePc[r] = "refresh"
    /\ routeRefresh' = [routeRefresh EXCEPT ![r] =
           Append(@, [grant_type |-> "refresh_token", credentials |-> "body",
                      refresh_token |-> routeToken[r].refresh_token])]
    /\ \E o \in RefreshOutcomes :
         LET refreshed == refreshAccessToken(o, now)
         IN /\ routeToken' = [routeToken EXCEPT ![r] = pairAfterRefresh(@, refreshed)]
            /\ IF refreshed.kind = "error"
               THEN /\ RouteResponds(r, statusOf(ensureCatch(refreshed)))
                    /\ UNCHANGED routeAccess
               ELSE /\ routeAccess' = [routeAccess EXCEPT ![r] = refreshed]
                    /\ RouteValidates(r)
    /\ UNCHANGED <<authHeader, routeBody>>
    /\ UNCHANGED <<cards, hashCache, isDevelopment, caller, attempts, uploadResult,
                   transcodedAudio, existingCard, fullCard, result, escaped,
                   slotResponse, puts, polls, hashAt, hashData, payload, atCall,
                   cards0, lookup, requests, trace>>
    /\ UNCHANGED <<tokenVars, authVars, cacheVars, ttsVars, safetyVars, genVars, pageVars>>

\* uploadStoryToYoto has returned or thrown: 200 for a success, 500 else
RouteReturn(r) ==
    /\ routePc[r] = "upload"
    /\ pc[r] = "done"
    /\ routeStatus' = [routeStatus EXCEPT ![r] =
           IF ~escaped[r] /\ result[r].kind = "ok" THEN 200 ELSE 500]
    /\ routePc' = [routePc EXCEPT ![r] = "done"]
    /\ UNCHANGED <<authHeader, routeBody, routeToken, routeAccess, routeRefresh>>
    /\ UNCHANGED <<flowVars, tokenVars, authVars, cacheVars, ttsVars, safetyVars, genVars, pageVars>>

----------------------------------------------------------------------------
\* The useAuth hook (useAuth.ts)

\* the most storage events the hook is sent
MaxEvents == 2

NoStored == [has |-> FALSE, json |-> "none", hasAccess |-> FALSE, access_token |-> NoToken]

\* what the item can hold: text that is not JSON, the JSON null, an object
\* without access_token, an object with an access token
StoredTokens ==
    {[has |-> TRUE, json |-> "garbage", hasAccess |-> FALSE, access_token |-> NoToken],
     [has |-> TRUE, json |-> "null", hasAccess |-> FALSE, access_token |-> NoToken],
     [has |-> TRUE, json |-> "object", hasAccess |-> FALSE, access_token |-> NoToken]}
    \cup {[has |-> TRUE, json |-> "object", hasAccess |-> TRUE, access_token |-> t] :
             t \in Tokens}

\* JSON.parse(storedToken) and tokenData.access_token throw
parseThrows(storedToken) == storedToken.json # "object"

\* a mutant: whatever parses counts as a valid token
AnyParsedTokenValid(parsed, currentTime) == TRUE

\* !(!tokenData.access_token || isTokenExpired(tokenData.access_token))
tokenValid(parsed, currentTime) ==
    parsed.hasAccess /\ ~isTokenExpired(parsed.access_token, currentTime)

\* checkAuth
checkAuth ==
    /\ hookChecks' = hookChecks + 1
    /\ isLoading' = FALSE
    /\ IF ~localToken.has
       THEN /\ isAuthenticated' = FALSE
            /\ hookToken' = NoStored
            /\ UNCHANGED localToken
       ELSE IF parseThrows(localToken) \/ ~tokenValid(localToken, now)
       THEN /\ localToken' = NoStored
            /\ isAuthenticated' = FALSE
            /\ hookToken' = NoStored
       ELSE /\ hookToken' = localToken
            /\ isAuthenticated' = TRUE
            /\ UNCHANGED localToken

\* the effect on mount: checkAuth, and the storage listener is added
HookMount ==
    /\ hookPc = "unmounted"
    /\ hookPc' = "mounted"
    /\ checkAuth
    /\ UNCHANGED hookEvents
    /\ UNCHANGED <<flowVars, tokenVars, authVars, cacheVars, ttsVars, safetyVars,
                   genVars, routeVars, callbackVars>>

\* another tab sets or removes the item; the mounted hook is sent a storage
\* event with the item's key (MaxEvents of them at most)
OtherTabWrites ==
    /\ hookChecks + hookEvents <= MaxEvents
    /\ \E stored \in StoredTokens \cup {NoStored} :
         /\ stored # localToken
         /\ localToken' = stored
    /\ hookEvents' = IF hookPc = "mounted" THEN hookEvents + 1 ELSE hookEvents
    /\ UNCHANGED <<isAuthenticated, isLoading, hookToken, hookPc, hookChecks>>
    /\ UNCHANGED <<flowVars, tokenVars, authVars, cacheVars, ttsVars, safetyVars,
                   genVars, routeVars, callbackVars>>

\* handleStorageChange for the key yoto_token
HandleStorageChange ==
    /\ hookPc = "mounted"
    /\ hookEvents > 0
    /\ hookEvents' = hookEvents - 1
    /\ checkAuth
    /\ UNCHANGED hookPc
    /\ UNCHANGED <<flowVars, tokenVars, authVars, cacheVars, ttsVars, safetyVars,
                   genVars, routeVars, callbackVars>>

\* logout, which leaves the page
Logout ==
    /\ hookPc = "mounted"
    /\ localToken' = NoStored
    /\ isAuthenticated' = FALSE
    /\ hookToken' = NoStored
    /\ hookPc' = "left"
    /\ UNCHANGED <<isLoading, hookChecks, hookEvents>>
    /\ UNCHANGED <<flowVars, tokenVars, authVars, cacheVars, ttsVars, safetyVars,
                   genVars, routeVars, callbackVars>>

----------------------------------------------------------------------------
\* The OAuth callback page (callback/page.tsx) and its API route (part_004)

\* the callback URL: with a code, with an error, with neither
SearchParams == {"code", "error", "none"}

\* the answer of POST /api/auth/callback: 200 with the tokens; 200 with a
\* body that is not JSON; 500 with { error }; a non-2xx answer whose body is
\* not JSON; a rejected fetch
CallbackAnswers == {"tokens", "badjson", "error", "errorbadjson", "throw"}

\* the tokens as JSON.stringify stores them
StoredTokensOf(at) ==
    [has |-> TRUE, json |-> "object", hasAccess |-> TRUE, access_token |-> RefreshedToken(at)]

\* the message of the error handleCallback throws for an answer
answerError(answer) ==
    IF answer = "error" THEN "Token exchange failed"
    ELSE IF answer = "throw" THEN ErrTransport
    ELSE "Unexpected token"

\* the error handleCallback throws before its request; "" when it sends it
startError(params, hasVerifier) ==
    IF params = "error" THEN "Authorization failed"
    ELSE IF params # "code" THEN "No authorization code received"
    ELSE IF ~hasVerifier THEN "No PKCE code verifier found"
    ELSE ""

\* the catch of handleCallback
CallbackFails(h, message) ==
    /\ cbError' = message
    /\ cbStatus' = "error"
    /\ cbPc' = [cbPc EXCEPT ![h] = "done"]
    /\ UNCHANGED <<localToken, verifier>>

\* the effect runs handleCallback again while the page shows the same URL
EffectRuns(h) ==
    /\ cbPc[h] = "idle"
    /\ cbPc' = [cbPc EXCEPT ![h] = "start"]
    /\ UNCHANGED <<verifier, searchParams, codeRedeemed, cbAnswer, cbStatus, cbError>>
    /\ UNCHANGED <<flowVars, tokenVars, authVars, cacheVars, ttsVars, safetyVars,
                   genVars, routeVars, hookVars>>

\* handleCallback up to its request
CallbackStart(h) ==
    /\ cbPc[h] = "start"
    /\ LET message == startError(searchParams, verifier)
       IN IF message # ""
          THEN CallbackFails(h, message)
          ELSE /\ cbPc' = [cbPc EXCEPT ![h] = "exchange"]
               /\ UNCHANGED <<localToken, verifier, cbStatus, cbError>>
    /\ UNCHANGED <<searchParams, codeRedeemed, cbAnswer>>
    /\ UNCHANGED <<isAuthenticated, isLoading, hookToken, hookPc, hookChecks, hookEvents>>
    /\ UNCHANGED <<flowVars, tokenVars, authVars, cacheVars, ttsVars, safetyVars,
                   genVars, routeVars>>

\* the exchange request and handleCallback to its end; the platform
\* exchanges a code once
CallbackExchange(h) ==
    /\ cbPc[h] = "exchange"
    /\ \E answer \in CallbackAnswers :
         /\ answer \in {"tokens", "badjson"} => ~codeRedeemed
         /\ cbAnswer' = [cbAnswer EXCEPT ![h] = answer]
         /\ codeRedeemed' = (codeRedeemed \/ answer \in {"tokens", "badjson"})
         /\ IF answer = "tokens"
            THEN /\ localToken' = StoredTokensOf(now)
                 /\ verifier' = FALSE
                 /\ cbStatus' = "success"
                 /\ cbPc' = [cbPc EXCEPT ![h] = "done"]
                 /\ UNCHANGED cbError
            ELSE CallbackFails(h, answerError(answer))
    /\ UNCHANGED searchParams
    /\ UNCHANGED <<isAuthenticated, isLoading, hookToken, hookPc, hookChecks, hookEvents>>
    /\ UNCHANGED <<flowVars, tokenVars, authVars, cacheVars, ttsVars, safetyVars,
                   genVars, routeVars>>

----------------------------------------------------------------------------
\* Specifications

RunInit(at, from) ==
    /\ pc = [p \in Runs |-> at]
    /\ caller = [p \in Runs |-> from]
    /\ attempts = [p \in Runs |-> 0]
    /\ uploadResult = [p \in Runs |-> NoUpload]
    /\ transcodedAudio = [p \in Runs |-> NoTranscode]
    /\ existingCard = [p \in Runs |-> NullCard]
    /\ fullCard = [p \in Runs |-> NullCard]
    /\ result = [p \in Runs |-> NoResult]
    /\ escaped = [p \in Runs |-> FALSE]
    /\ slotResponse = [p \in Runs |-> "none"]
    /\ puts = [p \in Runs |-> 0]
    /\ polls = [p \in Runs |-> 0]
    /\ hashAt = [p \in Runs |-> 0]
    /\ hashData = [p \in Runs |-> NoTranscode]
    /\ payload = [p \in Runs |-> NoPayload]
    /\ atCall = [p \in Runs |-> NotCalled]
    /\ overlap = FALSE
    /\ hashCache = NoCacheFile
    /\ lookup = [p \in Runs |-> NoLookup]
    /\ requests = [p \in Runs |-> {}]
    /\ trace = [p \in Runs |-> NoTrace]

NoTokenInit ==
    /\ now = 0
    /\ accessToken = NoToken
    /\ tokenCheck = NoCheck

NoAuthInit ==
    /\ tokenData = NullPair
    /\ clientId = FALSE
    /\ ensurePc = "idle"
    /\ ensureResult = NoOutcome
    /\ ensureAt = 0
    /\ exchangePc = "idle"
    /\ exchangeResult = NoOutcome
    /\ tokenRequests = <<>>
    /\ tokenResponses = <<>>

NoCacheInit ==
    /\ cacheDir = <<>>
    /\ storedTexts = {}
    /\ cachePuts = 0
    /\ cachePut = NoCachePut
    /\ cacheGot = NoCacheGot

NoTtsInit ==
    /\ apiKey = FALSE
    /\ ttsText = NullText
    /\ voiceId = ""
    /\ ttsPc = "idle"
    /\ ttsResult = NoAudioResult
    /\ ttsRequests = 0

NoSafetyInit ==
    /\ openaiKey = FALSE
    /\ storyContent = NoContent
    /\ storyPc = "idle"
    /\ moderation = NoModeration
    /\ safetyCheck = NoSafetyCheck
    /\ storyResult = NoStory

NoGenInit ==
    /\ anthropicKey = FALSE
    /\ genPc = "idle"
    /\ genCalls = <<>>
    /\ genResult = NoGenerated

NoRouteInit ==
    /\ authHeader = NoHeader
    /\ routeBody = [r \in Runs |-> "none"]
    /\ routePc = [r \in Runs |-> "idle"]
    /\ routeToken = [r \in Runs |-> NullHeaderPair]
    /\ routeAccess = [r \in Runs |-> NoOutcome]
    /\ routeRefresh = [r \in Runs |-> <<>>]
    /\ routeStatus = [r \in Runs |-> 0]

NoHookInit ==
    /\ localToken = NoStored
    /\ isAuthenticated = FALSE
    /\ isLoading = TRUE
    /\ hookToken = NoStored
    /\ hookPc = "none"
    /\ hookChecks = 0
    /\ hookEvents = 0

NoCallbackInit ==
    /\ verifier = FALSE
    /\ searchParams = "none"
    /\ codeRedeemed = FALSE
    /\ cbPc = [h \in Runs |-> "idle"]
    /\ cbAnswer = [h \in Runs |-> "none"]
    /\ cbStatus = "loading"
    /\ cbError = ""

NoPageInit == NoHookInit /\ NoCallbackInit

NoHelperInit ==
    NoCacheInit /\ NoTtsInit /\ NoSafetyInit /\ NoGenInit /\ NoRouteInit /\ NoPageInit

\* two submissions of the same story text, each a call of uploadStoryToYoto
Init ==
    /\ cards \in InitialAccounts
    /\ cards0 = cards
    /\ isDevelopment \in BOOLEAN
    /\ RunInit("start", "uploadStoryToYoto")
    /\ NoTokenInit
    /\ NoAuthInit
    /\ NoHelperInit

Next ==
    \E p \in Runs :
        \/ CacheLookup(p)
        \/ Synthesize(p)
        \/ RequestUploadUrl(p)
        \/ PutAudio(p)
        \/ PollTranscode(p)
        \/ ListCards(p)
        \/ FetchDetail(p)
        \/ RefetchDetail(p)
        \/ PostUpdate(p)
        \/ PostCreate(p)

Spec == Init /\ [][Next]_vars

\* uploadAudioToYoto called on its own
InitUpload ==
    /\ cards = <<>>
    /\ cards0 = cards
    /\ isDevelopment = FALSE
    /\ RunInit("slot", "none")
    /\ NoTokenInit
    /\ NoAuthInit
    /\ NoHelperInit

NextUpload ==
    \E p \in Runs :
        \/ RequestUploadUrl(p)
        \/ PutAudio(p)
        \/ PollTranscode(p)

SpecUpload == InitUpload /\ [][NextUpload]_vars

\* isTokenExpired called on a token as time passes
InitToken ==
    /\ cards = <<>>
    /\ cards0 = cards
    /\ isDevelopment = FALSE
    /\ RunInit("done", "none")
    /\ now = StartMs
    /\ accessToken \in Tokens
    /\ tokenCheck = NoCheck
    /\ NoAuthInit
    /\ NoHelperInit

NextToken == CheckToken \/ Tick

SpecToken == InitToken /\ [][NextToken]_vars

\* getHeroCard called on its own
InitFind ==
    /\ cards \in FindAccounts
    /\ cards0 = cards
    /\ isDevelopment = FALSE
    /\ RunInit("list", "none")
    /\ NoTokenInit
    /\ NoAuthInit
    /\ NoHelperInit

NextFind == \E p \in Runs : ListCards(p) \/ FetchDetail(p)

SpecFind == InitFind /\ [][NextFind]_vars

\* one call of ensureValidToken as time passes
InitEnsure ==
    /\ cards = <<>>
    /\ cards0 = cards
    /\ isDevelopment = FALSE
    /\ RunInit("done", "none")
    /\ now = StartMs
    /\ accessToken = NoToken
    /\ tokenCheck = NoCheck
    /\ tokenData \in TokenPairs
    /\ clientId \in BOOLEAN
    /\ ensurePc = "start"
    /\ ensureResult = NoOutcome
    /\ ensureAt = 0
    /\ exchangePc = "idle"
    /\ exchangeResult = NoOutcome
    /\ tokenRequests = <<>>
    /\ tokenResponses = <<>>
    /\ NoHelperInit

NextEnsure == EnsureStart \/ EnsureRefresh \/ Tick

SpecEnsure == InitEnsure /\ [][NextEnsure]_vars

\* one call of exchangeCodeForTokens
InitExchange ==
    /\ cards = <<>>
    /\ cards0 = cards
    /\ isDevelopment = FALSE
    /\ RunInit("done", "none")
    /\ NoTokenInit
    /\ tokenData = NullPair
    /\ clientId = TRUE
    /\ ensurePc = "idle"
    /\ ensureResult = NoOutcome
    /\ ensureAt = 0
    /\ exchangePc = "method1"
    /\ exchangeResult = NoOutcome
    /\ tokenRequests = <<>>
    /\ tokenResponses = <<>>
    /\ NoHelperInit

NextExchange == ExchangeBody \/ ExchangeBasic

SpecExchange == InitExchange /\ [][NextExchange]_vars

\* cacheTranscode and getCachedTranscode called on their own, over a cache
\* directory that is empty or holds one file it did not write
InitCache ==
    /\ cards = <<>>
    /\ cards0 = cards
    /\ isDevelopment \in BOOLEAN
    /\ RunInit("done", "none")
    /\ NoTokenInit
    /\ NoAuthInit
    /\ cacheDir \in InitialDirs
    /\ storedTexts = IF cacheDir[getStoryHashCacheKey(ForeignText)].has
                     THEN {ForeignText} ELSE {}
    /\ cachePuts = 0
    /\ cachePut = NoCachePut
    /\ cacheGot = NoCacheGot
    /\ NoTtsInit
    /\ NoSafetyInit
    /\ NoGenInit
    /\ NoRouteInit
    /\ NoPageInit

NextCache == CachePutCall \/ CacheGetCall

SpecCache == InitCache /\ [][NextCache]_vars

\* one call of generateAudio
InitTts ==
    /\ cards = <<>>
    /\ cards0 = cards
    /\ isDevelopment = FALSE
    /\ RunInit("done", "none")
    /\ NoTokenInit
    /\ NoAuthInit
    /\ NoCacheInit
    /\ apiKey \in BOOLEAN
    /\ ttsText \in TtsTexts
    /\ voiceId \in Voices
    /\ ttsPc = "start"
    /\ ttsResult = NoAudioResult
    /\ ttsRequests = 0
    /\ NoSafetyInit
    /\ NoGenInit
    /\ NoRouteInit
    /\ NoPageInit

NextTts == TtsStart \/ TtsFetch

SpecTts == InitTts /\ [][NextTts]_vars

\* one call of generateStory, from the story written to the return
InitSafety ==
    /\ cards = <<>>
    /\ cards0 = cards
    /\ isDevelopment = FALSE
    /\ RunInit("done", "none")
    /\ NoTokenInit
    /\ NoAuthInit
    /\ NoCacheInit
    /\ NoTtsInit
    /\ openaiKey \in BOOLEAN
    /\ storyContent \in StoryContents
    /\ storyPc = "start"
    /\ moderation = NoModeration
    /\ safetyCheck = NoSafetyCheck
    /\ storyResult = NoStory
    /\ NoGenInit
    /\ NoRouteInit
    /\ NoPageInit

NextSafety == StoryStart \/ Moderate

SpecSafety == InitSafety /\ [][NextSafety]_vars

\* one call of generateStory, from generateStoryContent on
InitGenerate ==
    /\ cards = <<>>
    /\ cards0 = cards
    /\ isDevelopment = FALSE
    /\ RunInit("done", "none")
    /\ NoTokenInit
    /\ NoAuthInit
    /\ NoCacheInit
    /\ NoTtsInit
    /\ openaiKey \in BOOLEAN
    /\ anthropicKey \in BOOLEAN
    /\ storyContent = NoContent
    /\ storyPc = "idle"
    /\ moderation = NoModeration
    /\ safetyCheck = NoSafetyCheck
    /\ storyResult = NoStory
    /\ genPc = "start"
    /\ genCalls = <<>>
    /\ genResult = NoGenerated
    /\ NoRouteInit
    /\ NoPageInit

NextGenerate == GenPrimary \/ GenFallback \/ StoryStart \/ Moderate

SpecGenerate == InitGenerate /\ [][NextGenerate]_vars

\* two requests to the send-to-yoto route that present the same header, on
\* an account without cards
InitRoute ==
    /\ cards = <<>>
    /\ cards0 = cards
    /\ isDevelopment = FALSE
    /\ RunInit("done", "uploadStoryToYoto")
    /\ now = StartMs
    /\ accessToken = NoToken
    /\ tokenCheck = NoCheck
    /\ tokenData = NullPair
    /\ clientId \in BOOLEAN
    /\ ensurePc = "idle"
    /\ ensureResult = NoOutcome
    /\ ensureAt = 0
    /\ exchangePc = "idle"
    /\ exchangeResult = NoOutcome
    /\ tokenRequests = <<>>
    /\ tokenResponses = <<>>
    /\ NoCacheInit
    /\ NoTtsInit
    /\ NoSafetyInit
    /\ NoGenInit
    /\ authHeader \in Headers
    /\ routeBody \in [Runs -> Bodies]
    /\ routePc = [r \in Runs |-> "start"]
    /\ routeToken = [r \in Runs |-> NullHeaderPair]
    /\ routeAccess = [r \in Runs |-> NoOutcome]
    /\ routeRefresh = [r \in Runs |-> <<>>]
    /\ routeStatus = [r \in Runs |-> 0]
    /\ NoPageInit

NextRoute ==
    \E r \in Runs :
        \/ RouteStart(r)
        \/ RouteRefresh(r)
        \/ RouteReturn(r)
        \/ CacheLookup(r)
        \/ Synthesize(r)
        \/ RequestUploadUrl(r)
        \/ PutAudio(r)
        \/ PollTranscode(r)
        \/ ListCards(r)
        \/ FetchDetail(r)
        \/ RefetchDetail(r)
        \/ PostUpdate(r)
        \/ PostCreate(r)

SpecRoute == InitRoute /\ [][NextRoute]_vars

\* a page that uses the hook, as time passes and other tabs write the item
InitHook ==
    /\ cards = <<>>
    /\ cards0 = cards
    /\ isDevelopment = FALSE
    /\ RunInit("done", "none")
    /\ now = StartMs
    /\ accessToken = NoToken
    /\ tokenCheck = NoCheck
    /\ NoAuthInit
    /\ NoCacheInit
    /\ NoTtsInit
    /\ NoSafetyInit
    /\ NoGenInit
    /\ NoRouteInit
    /\ localToken \in StoredTokens \cup {NoStored}
    /\ isAuthenticated = FALSE
    /\ isLoading = TRUE
    /\ hookToken = NoStored
    /\ hookPc = "unmounted"
    /\ hookChecks = 0
    /\ hookEvents = 0
    /\ NoCallbackInit

NextHook == HookMount \/ OtherTabWrites \/ HandleStorageChange \/ Logout \/ Tick

SpecHook == InitHook /\ [][NextHook]_vars

\* the callback page after the redirect from the platform: the effect runs
\* handleCallback, and may run it again
InitCallback ==
    /\ cards = <<>>
    /\ cards0 = cards
    /\ isDevelopment = FALSE
    /\ RunInit("done", "none")
    /\ now = StartMs
    /\ accessToken = NoToken
    /\ tokenCheck = NoCheck
    /\ NoAuthInit
    /\ NoCacheInit
    /\ NoTtsInit
    /\ NoSafetyInit
    /\ NoGenInit
    /\ NoRouteInit
    /\ localToken \in {NoStored, StoredTokensOf(0)}
    /\ isAuthenticated = FALSE
    /\ isLoading = TRUE
    /\ hookToken = NoStored
    /\ hookPc = "none"
    /\ hookChecks = 0
    /\ hookEvents = 0
    /\ verifier \in BOOLEAN
    /\ searchParams \in SearchParams
    /\ codeRedeemed = FALSE
    /\ cbPc = [h \in Runs |-> "idle"]
    /\ cbAnswer = [h \in Runs |-> "none"]
    /\ cbStatus = "loading"
    /\ cbError = ""

NextCallback ==
    \E h \in Runs : EffectRuns(h) \/ CallbackStart(h) \/ CallbackExchange(h)

SpecCallback == InitCallback /\ [][NextCallback]_vars

\* getHeroCard at its detail request and updateHeroCard at its entry, each
\* called on its own with the hero card of the account: updateHeroCard is
\* handed the list's entry or the full card
DetailStarts == {"detail", "refetch", "write"}

startCard(c, at) == IF at = "write" THEN DetailOf(c) ELSE SummaryOf(c)

InitDetail ==
    /\ cards \in InitialAccounts \ {<<>>}
    /\ cards0 = cards
    /\ isDevelopment = FALSE
    /\ pc \in [Runs -> DetailStarts]
    /\ caller = [p \in Runs |-> "none"]
    /\ existingCard = [p \in Runs |-> startCard(cards[1], pc[p])]
    /\ fullCard = [p \in Runs |-> IF pc[p] = "detail" THEN NullCard ELSE existingCard[p]]
    /\ atCall = [p \in Runs |->
                   IF pc[p] = "detail" THEN NotCalled
                   ELSE [called |-> TRUE, chapters |-> cards[1].chapters]]
    /\ lookup = [p \in Runs |->
                   IF pc[p] = "detail"
                   THEN [NoLookup EXCEPT !.list = "ok", !.cardId = cards[1].cardId]
                   ELSE NoLookup]
    /\ requests = [p \in Runs |-> IF pc[p] = "detail" THEN {"list"} ELSE {}]
    /\ transcodedAudio = [p \in Runs |-> TranscodeOf(p)]
    /\ attempts = [p \in Runs |-> 0]
    /\ uploadResult = [p \in Runs |-> NoUpload]
    /\ result = [p \in Runs |-> NoResult]
    /\ escaped = [p \in Runs |-> FALSE]
    /\ slotResponse = [p \in Runs |-> "none"]
    /\ puts = [p \in Runs |-> 0]
    /\ polls = [p \in Runs |-> 0]
    /\ hashAt = [p \in Runs |-> 0]
    /\ hashData = [p \in Runs |-> NoTranscode]
    /\ payload = [p \in Runs |-> NoPayload]
    /\ overlap = FALSE
    /\ hashCache = NoCacheFile
    /\ trace = [p \in Runs |-> NoTrace]
    /\ NoTokenInit
    /\ NoAuthInit
    /\ NoHelperInit

NextDetail == \E p \in Runs : FetchDetail(p) \/ RefetchDetail(p) \/ PostUpdate(p)

SpecDetail == InitDetail /\ [][NextDetail]_vars

----------------------------------------------------------------------------
\* Properties

Succeeded(p) == result[p].kind = "ok"

Alone(p) == \A q \in Runs \ {p} : pc[q] = "start"

\* C1: every updateHeroCard call that returns success has written the N
\* chapters the remote card held when it was called, in their order,
\* followed by the new chapter, whether or not the card passed in carried
\* chapters and whether or not the re-fetch succeeded. (The other run has
\* not started, so no concurrent write is involved.)
C1_UpdateWritesAllChapters ==
    \A p \in Runs :
        (Succeeded(p) /\ payload[p].kind = "update" /\ Alone(p)) =>
            LET written == payload[p].chapters
                before == atCall[p].chapters
                n == Len(before)
            IN /\ Len(written) = n + 1
               /\ \A i \in 1..n : written[i].tracks = before[i].tracks
               /\ written[n + 1].tracks[1].trackUrl = transcodedAudio[p].transcodedSha256

\* C2: in every card write issued, the aggregate duration and file size of
\* the body are the sums over all tracks of all chapters of that body.
C2_AggregateIsSum ==
    \A p \in Runs :
        payload[p].sent =>
            /\ payload[p].media.duration = SumChapters(payload[p].chapters, "duration")
            /\ payload[p].media.fileSize = SumChapters(payload[p].chapters, "fileSize")

\* C3: in every card write issued, the chapter keys of the body are "01",
\* "02", ... in list order, whatever keys the remote card held.
C3_KeysContiguous ==
    \A p \in Runs :
        payload[p].sent =>
            \A i \in DOMAIN payload[p].chapters : payload[p].chapters[i].key = Pad2(i)

\* C4: no exception leaves uploadStoryToYoto, and what it returns is either
\* a success with the transcode or a failure with an error string.
C4_UniformResult ==
    \A p \in Runs :
        /\ ~escaped[p]
        /\ pc[p] = "done" =>
             \/ result[p].kind = "ok" /\ result[p].transcodeInfo.transcodedSha256 # 0
             \/ result[p].kind = "fail" /\ result[p].error # ""
        /\ pc[p] # "done" => result[p].kind = "none"

\* a failure thrown past every inner handler came back as a failure result
C4_Witness ==
    \E p \in Runs : pc[p] = "done" /\ result[p] = Failure(ErrImport)

\* two runs that both updated the same card with success from the same
\* chapter list read
BothFromSameRead(p, q) ==
    /\ p # q
    /\ Succeeded(p) /\ Succeeded(q)
    /\ payload[p].kind = "update" /\ payload[q].kind = "update"
    /\ payload[p].cardId = payload[q].cardId
    /\ payload[p].cardId # 0
    /\ fullCard[p].hasContent /\ fullCard[q].hasContent
    /\ fullCard[p].chapters = fullCard[q].chapters

\* C5: when two runs both read the N-chapter card before either wrote and
\* both return success, the card ends with N + 1 chapters, not N + 2: the
\* later full-document write replaces the earlier one.
C5_LastWriteWins ==
    \A p, q \in Runs :
        BothFromSameRead(p, q) =>
            Len(CardById(cards, payload[p].cardId).chapters) = Len(fullCard[p].chapters) + 1

\* both runs succeeded on a card of N >= 1 chapters, which now holds N + 1
C5_Witness ==
    \E p, q \in Runs :
        /\ BothFromSameRead(p, q)
        /\ Len(fullCard[p].chapters) >= 1
        /\ Len(CardById(cards, payload[p].cardId).chapters) = Len(fullCard[p].chapters) + 1

\* C6: from an account with no card, after runs that do not overlap, the
\* card getHeroCard selects holds a chapter for every run that succeeded.
C6_NoChapterLost ==
    (cards0 = <<>> /\ ~overlap) =>
        LET n == Cardinality({p \in Runs : Succeeded(p)})
            found == existingCards(cards)
        IN IF found = <<>> THEN n = 0
           ELSE Len(mostRecentCard(found).chapters) >= n

\* C7: when no status response carried a hash, uploadAudioToYoto returns
\* after exactly 60 status requests, with the timeout failure.
C7_SixtyPollsThenTimeout ==
    \A p \in Runs :
        (pc[p] = "uploaded" /\ polls[p] > 0 /\ hashAt[p] = 0) =>
            /\ polls[p] = maxAttempts
            /\ uploadResult[p] = UploadFailure(ErrTimeout)

\* C8: when the k-th status response is the first to carry a hash,
\* uploadAudioToYoto returns success with that response's transcode after
\* exactly k status requests, 1 <= k <= 60; and it returns success only so.
C8_ReturnsAtFirstHash ==
    \A p \in Runs :
        /\ hashAt[p] # 0 =>
             /\ pc[p] = "uploaded"
             /\ uploadResult[p] = UploadOk(hashData[p])
             /\ polls[p] = hashAt[p]
             /\ hashAt[p] \in 1..maxAttempts
        /\ uploadResult[p].kind = "ok" => hashAt[p] # 0

\* the hash came with the last poll the loop allows
C8_Witness ==
    \E p \in Runs : hashAt[p] = maxAttempts /\ uploadResult[p].kind = "ok"

\* C9: a 2xx upload-slot response without an upload URL makes
\* uploadAudioToYoto return a failure with no PUT and no status request.
C9_NoPutWithoutUrl ==
    \A p \in Runs :
        slotResponse[p] \in {"nourl", "nobody"} =>
            /\ pc[p] = "uploaded"
            /\ uploadResult[p].kind = "fail"
            /\ puts[p] = 0
            /\ polls[p] = 0

C9_Witness ==
    \E p \in Runs :
        slotResponse[p] = "nourl" /\ uploadResult[p] = UploadFailure(ErrNoUploadUrl)

\* C10: isTokenExpired answers true exactly when the token cannot be decoded
\* or its expiry is at or before now + 5 minutes.
C10_ExpiredWithinMargin ==
    tokenCheck.done =>
        (tokenCheck.answer <=>
            \/ ~accessToken.decodable
            \/ accessToken.hasExp /\ accessToken.exp * 1000 <= tokenCheck.at + 5 * 60 * 1000)

\* the boundary: the expiry is exactly five minutes after the call
C10_Witness ==
    /\ tokenCheck.done
    /\ tokenCheck.answer
    /\ accessToken.hasExp
    /\ accessToken.exp * 1000 = tokenCheck.at + 5 * 60 * 1000

\* the token has a decoded expiry more than five minutes after time at
ExpiresBeyondMargin(token, at) ==
    token.decodable /\ token.hasExp /\ token.exp * 1000 > at + 5 * 60 * 1000

\* C11: ensureValidToken returns the caller's access token without a refresh
\* only if that token has a decoded expiry more than 5 minutes after the
\* check; a token that cannot be decoded or that has no expiry claim is never
\* returned.
C11_UsableOnlyWithFutureExpiry ==
    (ensurePc = "done" /\ ensureResult.kind = "token" /\ tokenRequests = <<>>) =>
        ExpiresBeyondMargin(ensureResult.token, ensureAt)

\* C12: whenever the current access token is not expired, ensureValidToken
\* returns that same token and sends no request to the token endpoint.
C12_NoRefreshWhenNotExpired ==
    (/\ ensurePc \in {"refresh", "done"}
     /\ tokenData.hasAccess
     /\ ExpiresBeyondMargin(tokenData.access_token, ensureAt)) =>
        /\ ensurePc = "done"
        /\ ensureResult = Returned(tokenData.access_token)
        /\ tokenRequests = <<>>

\* a refresh was possible and was not made
C12_Witness ==
    /\ ensurePc = "done"
    /\ tokenData.hasAccess /\ tokenData.hasRefresh /\ clientId
    /\ ExpiresBeyondMargin(tokenData.access_token, ensureAt)
    /\ tokenData.access_token.exp * 1000 <= ensureAt + 5 * 60 * 1000 + 1000
    /\ ensureResult = Returned(tokenData.access_token)
    /\ tokenRequests = <<>>

\* the token cannot be decoded, or its expiry is within the margin at time at
ExpiredAt(token, at) ==
    \/ ~token.decodable
    \/ token.hasExp /\ token.exp * 1000 <= at + 5 * 60 * 1000

IsAuthenticationFailure(outcome) ==
    outcome.kind = "error" /\ outcome.error = "AuthenticationError"

\* C13: ensureValidToken throws an AuthenticationError, with no request to
\* the token endpoint, when the token pair is null or has no access token,
\* and when the access token is expired and there is no refresh token; when
\* the refresh request is rejected it throws an AuthenticationError too and
\* does not return the expired token.
C13_AuthenticationFailures ==
    /\ (ensurePc \in {"refresh", "done"} /\ ~tokenData.hasAccess) =>
           /\ ensurePc = "done"
           /\ IsAuthenticationFailure(ensureResult)
           /\ tokenRequests = <<>>
    /\ (/\ ensurePc \in {"refresh", "done"}
        /\ tokenData.hasAccess
        /\ ExpiredAt(tokenData.access_token, ensureAt)
        /\ ~tokenData.hasRefresh) =>
           /\ ensurePc = "done"
           /\ IsAuthenticationFailure(ensureResult)
           /\ tokenRequests = <<>>
    /\ (ensurePc = "done" /\ tokenResponses # <<>>
        /\ tokenResponses[1] \in {"notok", "throw"}) =>
           IsAuthenticationFailure(ensureResult)

\* the refresh request was sent and its fetch was rejected
C13_Witness ==
    /\ ensurePc = "done"
    /\ tokenRequests = <<RefreshRequest>>
    /\ tokenResponses = <<"throw">>
    /\ IsAuthenticationFailure(ensureResult)

\* C14: exchangeCodeForTokens sends a second token request, with HTTP Basic
\* credentials, if and only if the first, body-credential request answered
\* 401; any other first response ends the exchange after one request, and
\* no exchange sends more than two.
C14_SecondRequestIffFirst401 ==
    /\ Len(tokenRequests) <= 2
    /\ \A i \in DOMAIN tokenRequests :
           (tokenRequests[i].credentials = "body") <=> (i = 1)
    /\ exchangePc = "method2" =>
           Len(tokenRequests) = 1 /\ tokenResponses[1].status = 401
    /\ exchangePc = "done" =>
           /\ Len(tokenRequests) \in {1, 2}
           /\ (Len(tokenRequests) = 2) <=> (tokenResponses[1].status = 401)

\* a 401 was followed by a Basic request, which was rejected as well
C14_Witness ==
    /\ exchangePc = "done"
    /\ Len(tokenRequests) = 2
    /\ tokenResponses[1].status = 401
    /\ tokenRequests[2].credentials = "basic id:secret"
    /\ tokenResponses[2].status = 401

\* C15: when both methods are rejected, exchangeCodeForTokens throws an
\* AuthenticationError that carries the error code and the description of
\* the second response.
C15_ExhaustionIsAuthenticationFailure ==
    (/\ exchangePc = "done"
     /\ Len(tokenResponses) = 2
     /\ tokenResponses[2].status \in {400, 401, 500}
     /\ tokenResponses[2].body.json
     /\ tokenResponses[2].body.error # ""
     /\ tokenResponses[2].body.error_description # "") =>
        /\ IsAuthenticationFailure(exchangeResult)
        /\ exchangeResult.message =
               "Token exchange failed: " \o tokenResponses[2].body.error
               \o " - " \o tokenResponses[2].body.error_description

HeroCardsOf(cs) == {i \in DOMAIN cs : cs[i].title = "You're The Hero!"}

\* C16: among several cards with the exact well-known title, getHeroCard
\* selects the one with the greatest createdAt; a card with any other title
\* is never selected, whatever its createdAt.
C16_SelectsNewestHero ==
    \A p \in Runs :
        /\ (lookup[p].list = "ok" /\ HeroCardsOf(cards) # {}) => lookup[p].cardId # 0
        /\ lookup[p].cardId # 0 =>
               LET chosen == CardById(cards, lookup[p].cardId)
               IN /\ chosen.title = "You're The Hero!"
                  /\ \A i \in HeroCardsOf(cards) : cards[i].createdAt <= chosen.createdAt
        /\ (pc[p] = "found" /\ existingCard[p].present) =>
               existingCard[p].cardId = lookup[p].cardId

\* two hero cards of different age and a newer card with another title: the
\* newer hero card came back
C16_Witness ==
    \E p \in Runs :
        /\ pc[p] = "found" /\ existingCard[p].present /\ existingCard[p].hasContent
        /\ \E i, j \in HeroCardsOf(cards) :
               /\ i < j
               /\ cards[i].createdAt > cards[j].createdAt
               /\ existingCard[p].cardId = cards[i].cardId
        /\ \E k \in DOMAIN cards \ HeroCardsOf(cards) :
               cards[k].createdAt > CardById(cards, existingCard[p].cardId).createdAt

\* C17: getHeroCard returns null for every failure along its path: a
\* non-2xx or rejected list request, a non-2xx or rejected detail request.
C17_NullOnEveryFailure ==
    \A p \in Runs :
        (/\ pc[p] = "found"
         /\ \/ lookup[p].list \in {"notok", "throw"}
            \/ lookup[p].detail \in {"notok", "throw"}) =>
            ~existingCard[p].present

\* the run has a transcode: it reached the card step
ReachedCardStep(p) == transcodedAudio[p].transcodedSha256 # 0

\* C18: in every run that reaches the card step, createHeroCard is called
\* exactly when getHeroCard returned null and updateHeroCard exactly when it
\* returned a card; never both, never neither.
C18_CreateXorUpdate ==
    \A p \in Runs :
        /\ pc[p] = "create" => ~existingCard[p].present /\ ~atCall[p].called
        /\ pc[p] \in {"refetch", "write"} => existingCard[p].present /\ atCall[p].called
        /\ (pc[p] = "done" /\ ReachedCardStep(p)) =>
               /\ (payload[p].kind = "create") <=> ~existingCard[p].present
               /\ atCall[p].called <=> existingCard[p].present
               /\ (payload[p].kind = "create") # atCall[p].called

\* from an empty account, one run created the card and the other updated it
C18_Witness ==
    \E p, q \in Runs :
        /\ cards0 = <<>>
        /\ pc[p] = "done" /\ payload[p].kind = "create" /\ ~existingCard[p].present
        /\ pc[q] = "done" /\ payload[q].kind = "update" /\ existingCard[q].present
        /\ Succeeded(p) /\ Succeeded(q)

\* C19: every write createHeroCard issues carries exactly one chapter, keyed
\* "01", with one track that references the transcode's hash; its title is
\* the constant card title and it carries no card id.
C19_CreateBody ==
    \A p \in Runs :
        payload[p].kind = "create" =>
            /\ Len(payload[p].chapters) = 1
            /\ payload[p].chapters[1].key = "01"
            /\ Len(payload[p].chapters[1].tracks) = 1
            /\ payload[p].chapters[1].tracks[1].trackUrl = transcodedAudio[p].transcodedSha256
            /\ transcodedAudio[p].transcodedSha256 # 0
            /\ payload[p].title = "You're The Hero!"
            /\ payload[p].cardId = 0

\* a card was created with that body
C19_Witness ==
    \E p \in Runs :
        /\ payload[p].kind = "create" /\ Succeeded(p)
        /\ \E i \in DOMAIN cards :
               /\ cards[i].cardId = result[p].cardId
               /\ cards[i].title = "You're The Hero!"

\* updateHeroCard returned the failure of a non-2xx write
UpdateRejected(p) ==
    pc[p] = "done" /\ payload[p].kind = "update" /\ result[p] = Failure(ErrUpdate)

\* C20: the failure updateHeroCard returns for a non-2xx write includes the
\* number of chapters of the body: the failures of two rejected writes whose
\* bodies differ in their number of chapters are different.
C20_FailureTellsChapterCount ==
    \A p, q \in Runs :
        (UpdateRejected(p) /\ UpdateRejected(q) /\ result[p] = result[q]) =>
            Len(payload[p].chapters) = Len(payload[q].chapters)

\* the last cacheTranscode call wrote its file
Stored == cachePut.done /\ isDevelopment /\ cachePut.write = "ok"

\* C21: in development, after a transcode r was stored under the key of
\* text t, a read with the key of text t' returns an entry with r's hash,
\* duration and file size when trim(t') = trim(t); a read of a text whose
\* trimmed form differs from that of every text stored returns a miss.
C21_CacheRoundTrip ==
    (isDevelopment /\ cacheGot.done) =>
        /\ (Stored /\ cacheGot.read = "ok" /\ Trim(cacheGot.text) = Trim(cachePut.text)) =>
               /\ cacheGot.got.hit
               /\ cacheGot.got.cached.transcodedSha256 = cachePut.r.transcodedSha256
               /\ cacheGot.got.cached.duration = cachePut.r.duration
               /\ cacheGot.got.cached.fileSize = cachePut.r.fileSize
        /\ (\A t \in storedTexts : Trim(t) # Trim(cacheGot.text)) => ~cacheGot.got.hit

\* stored under a text with white space around it, read back with another,
\* over a file of another session
C21_Witness ==
    /\ Stored /\ cacheGot.done
    /\ cachePuts = 2
    /\ cacheGot.text # cachePut.text
    /\ Trim(cacheGot.text) = Trim(cachePut.text)
    /\ cacheGot.got.hit
    /\ cacheGot.got.cached = cachePut.r

\* C22: getCachedTranscode returns a miss for a missing file and for every
\* corrupt entry, an entry that parses as JSON and lacks a content hash
\* included; every hit carries a content hash.
C22_MissForEveryCorruptEntry ==
    cacheGot.done =>
        /\ (\/ ~cacheGot.file.has
            \/ cacheGot.file.json # "object"
            \/ cacheGot.file.entry.transcodedSha256 = 0) => ~cacheGot.got.hit
        /\ cacheGot.got.hit => cacheGot.got.cached.transcodedSha256 # 0

CardSteps == {"list", "detail", "refetch", "write", "create", "done"}

\* C23: a failure to persist the cache entry is not propagated: the run goes
\* on to the card lookup and write, and ends as a run whose persist
\* succeeded ends: with the card step's success, carrying the transcode, or
\* with the card step's failure.
C23_PersistFailureNotPropagated ==
    \A p \in Runs :
        trace[p].cacheWrite = "error" =>
            /\ ~escaped[p]
            /\ pc[p] \in CardSteps
            /\ transcodedAudio[p] = TranscodeOf(p)
            /\ pc[p] = "done" =>
                   /\ "list" \in requests[p]
                   /\ result[p].kind = "ok" =>
                          /\ "write" \in requests[p]
                          /\ result[p].transcodeInfo = TranscodeOf(p)
                   /\ result[p].kind = "fail" =>
                          result[p].error \in {ErrTransport, ErrCreate, ErrUpdate}

\* the cache write failed and the run wrote its card with success
C23_Witness ==
    \E p \in Runs :
        /\ trace[p].cacheWrite = "error"
        /\ Succeeded(p)
        /\ payload[p].sent

UploadRequests == {"tts", "slot", "put", "poll"}

\* C24: in production the cache read is always a miss and the cache write
\* stores nothing: every run that reaches the card step has done its own
\* synthesis and upload and works with its own transcode.
C24_ProductionNeverCaches ==
    ~isDevelopment =>
        /\ hashCache = NoCacheFile
        /\ \A p \in Runs :
               /\ ~trace[p].cached.hit
               /\ ReachedCardStep(p) =>
                      /\ UploadRequests \subseteq requests[p]
                      /\ transcodedAudio[p] = TranscodeOf(p)

\* two production runs of the same text succeeded, each with its own
\* transcode
C24_Witness ==
    /\ ~isDevelopment
    /\ \A p \in Runs : Succeeded(p) /\ trace[p].read /\ UploadRequests \subseteq requests[p]
    /\ transcodedAudio[1] # transcodedAudio[2]

\* C25: on a cache hit the run issues no TTS request, no upload-slot
\* request, no PUT and no transcode-status request; it goes straight to the
\* card lookup, and the chapter it writes references the cached hash.
C25_HitSkipsSynthesisAndUpload ==
    \A p \in Runs :
        trace[p].cached.hit =>
            /\ requests[p] \cap UploadRequests = {}
            /\ trace[p].synthesis = "none"
            /\ trace[p].cacheWrite = "none"
            /\ pc[p] \in CardSteps
            /\ transcodedAudio[p] = trace[p].cached.cached
            /\ payload[p].sent =>
                   payload[p].chapters[Len(payload[p].chapters)].tracks[1].trackUrl
                       = trace[p].cached.cached.transcodedSha256

\* a run found the transcode another run had cached, and wrote it
C25_Witness ==
    \E p \in Runs :
        /\ trace[p].cached.hit
        /\ trace[p].cached.cached.transcodedSha256 # 0
        /\ Succeeded(p)
        /\ requests[p] = {"list", "detail", "write"}

\* C26: on a cache miss, when no voice is configured or the synthesis fails,
\* the run returns a failure with an error message and issues no
\* upload-slot request, no cache write and no card list, detail or write
\* request.
C26_SynthesisFailureStopsRun ==
    \A p \in Runs :
        trace[p].synthesis \in {"novoice", "fail"} =>
            /\ pc[p] = "done"
            /\ result[p].kind = "fail"
            /\ result[p].error # ""
            /\ requests[p] \subseteq {"tts"}
            /\ trace[p].cacheWrite = "none"
            /\ ~payload[p].sent

\* one run stopped for want of a voice, the other at a failed synthesis
C26_Witness ==
    \E p, q \in Runs :
        /\ trace[p].read /\ ~trace[p].cached.hit
        /\ trace[p].synthesis = "novoice" /\ result[p] = Failure(ErrNoVoice)
        /\ trace[q].synthesis = "fail" /\ result[q] = Failure(ErrAudio)

\* C27: for every text within the word ceiling and every answer of the TTS
\* service, generateAudio returns a success with a non-empty audio buffer or
\* a failure with an error message.
C27_AudioOrFailure ==
    (ttsPc = "done" /\ ttsText.isString /\ ttsText.words \in 1..1000) =>
        \/ ttsResult.kind = "ok" /\ ttsResult.byteLength > 0
        \/ ttsResult.kind = "fail" /\ ttsResult.error # ""

\* the text can be sent: it is a string of 1 to 1000 words
Sendable(t) == t.isString /\ t.words >= 1 /\ t.words <= 1000

\* C28: generateAudio sends a TTS request only when an API key is
\* configured and the text has 1 to 1000 words; for a missing key, an empty
\* or null text, or a text of more than 1000 words it returns a failure and
\* sends no request.
C28_RequestOnlyForSendableText ==
    /\ ttsRequests <= 1
    /\ ttsRequests > 0 => apiKey /\ Sendable(ttsText)
    /\ (ttsPc = "done" /\ ~(apiKey /\ Sendable(ttsText))) =>
           /\ ttsResult.kind = "fail"
           /\ ttsResult.error # ""
           /\ ttsRequests = 0
    /\ (ttsPc = "done" /\ apiKey /\ Sendable(ttsText)) => ttsRequests = 1

\* with a key, a text of 1001 words was refused and nothing was sent
C28_Witness ==
    /\ ttsPc = "done"
    /\ apiKey
    /\ ttsText.words = 1001
    /\ ttsResult = AudioFailure(ErrTextLength)
    /\ ttsRequests = 0

\* the moderation service answered with a score at or above the threshold
ModerationPassed == openaiKey /\ moderation.kind = "score" /\ moderation.score >= 7

\* C29: validateContentSafetyWithAI reports a story as valid only if the
\* moderation service answered with a score of 7 or more; every failure of
\* that service (missing key, non-2xx, thrown error, unparsable or
\* score-less answer) gives not valid, and generateStory then returns no
\* story.
C29_ModerationFailsClosed ==
    /\ (safetyCheck.done /\ safetyCheck.isValid) => ModerationPassed
    /\ (storyPc = "done" /\ ~ModerationPassed) =>
           /\ ~safetyCheck.isValid
           /\ storyResult.kind = "thrown"
    /\ storyResult.kind = "story" => safetyCheck.done /\ safetyCheck.isValid

\* a story with nothing else against it was refused because the moderation
\* request was rejected
C29_Witness ==
    /\ storyPc = "done"
    /\ openaiKey
    /\ moderation.kind = "throw"
    /\ ~storyContent.empty /\ storyContent.words >= 100 /\ ~storyContent.profane
    /\ safetyCheck.done /\ ~safetyCheck.isValid
    /\ storyResult.kind = "thrown"

\* C30: every write updateHeroCard issues carries the identifier of the card
\* getHeroCard selected and the constant title, also when updateHeroCard
\* fetched the card detail itself: it is never the creation of a card.
C30_UpdateCarriesSelectedId ==
    \A p \in Runs :
        payload[p].kind = "update" =>
            /\ payload[p].cardId # 0
            /\ payload[p].cardId = existingCard[p].cardId
            /\ payload[p].title = "You're The Hero!"

\* C31: once the PUT has succeeded, polling ends in two ways only: a status
\* response with a hash, or the 60th attempt. A non-2xx status response, a
\* rejected status request or a 2xx body without transcode data does not
\* end it earlier.
C31_PollingEndsByHashOrCeiling ==
    \A p \in Runs :
        (pc[p] = "uploaded" /\ polls[p] > 0) =>
            \/ hashAt[p] = polls[p]
            \/ polls[p] = maxAttempts

\* the place of a request in the order of a run
Rank(kind) ==
    CASE kind = "tts" -> 1
      [] kind = "slot" -> 2
      [] kind = "put" -> 3
      [] kind = "poll" -> 4
      [] kind = "list" -> 5
      [] kind = "detail" -> 6
      [] kind = "refetch" -> 6
      [] kind = "write" -> 7

\* the requests a run can have issued when it stands at a step
IssuedBefore(at) ==
    CASE at = "start" -> {}
      [] at = "tts" -> {}
      [] at = "slot" -> {"tts"}
      [] at = "put" -> {"tts", "slot"}
      [] at = "poll" -> {"tts", "slot", "put", "poll"}
      [] at = "list" -> {"tts", "slot", "put", "poll"}
      [] at = "detail" -> {"tts", "slot", "put", "poll", "list"}
      [] at \in {"refetch", "write", "create"} ->
             {"tts", "slot", "put", "poll", "list", "detail", "refetch"}
      [] OTHER -> {"tts", "slot", "put", "poll", "list", "detail", "refetch", "write"}

\* C32: within a run the requests go out in the order TTS, upload slot,
\* PUT, status polls, card list, card detail, card write: no step issues a
\* request that comes before one already issued, a run waiting to issue a
\* request has issued only requests that come before it, and a run issues
\* at most one card write.
C32_RequestsInOrder ==
    [][\A p \in Runs :
          /\ \A new \in requests'[p] \ requests[p] :
                 \A old \in requests[p] : Rank(old) <= Rank(new)
          /\ requests[p] \subseteq IssuedBefore(pc[p])
          /\ "write" \in requests[p] => requests'[p] = requests[p]]_vars

\* a run went through every kind of request, the second detail request of
\* updateHeroCard included
C32_Witness ==
    \E p \in Runs :
        /\ Succeeded(p)
        /\ requests[p] = {"tts", "slot", "put", "poll", "list", "detail", "refetch", "write"}

\* C33: the cache holds an entry only if an upload of the text finished
\* transcoding with a hash: the entry is the transcode of a run that polled
\* to the end; a run whose synthesis, upload or transcode failed or timed
\* out writes no cache entry.
C33_CacheOnlyAfterTranscode ==
    /\ hashCache.has =>
           /\ hashCache.entry.transcodedSha256 # 0
           /\ \E p \in Runs :
                  /\ hashCache.entry = cacheData(TranscodeOf(p))
                  /\ transcodedAudio[p] = TranscodeOf(p)
                  /\ UploadRequests \subseteq requests[p]
    /\ \A p \in Runs :
           trace[p].cacheWrite # "none" =>
               /\ transcodedAudio[p].transcodedSha256 # 0
               /\ trace[p].synthesis = "ok"
               /\ UploadRequests \subseteq requests[p]

\* the upload of one run failed and it cached nothing, the other cached its
\* transcode
C33_Witness ==
    \E p, q \in Runs :
        /\ result[p] = Failure(ErrPut) /\ trace[p].cacheWrite = "none"
        /\ trace[q].cacheWrite = "ok"
        /\ hashCache.has /\ hashCache.entry = cacheData(TranscodeOf(q))

\* C34: for every existing chapter, the body updateHeroCard writes keeps the
\* chapter's title, overlay label and icon, and its tracks in order, each
\* with its title, media URI, duration, file size, channels, format, type
\* and overlay label.
C34_ExistingChaptersKept ==
    \A p \in Runs :
        (payload[p].kind = "update" /\ fullCard[p].hasContent) =>
            \A i \in DOMAIN fullCard[p].chapters :
                LET old == fullCard[p].chapters[i]
                    new == payload[p].chapters[i]
                IN /\ new.title = old.title
                   /\ new.overlayLabel = old.overlayLabel
                   /\ new.icon = old.icon
                   /\ Len(new.tracks) = Len(old.tracks)
                   /\ \A j \in DOMAIN old.tracks :
                          /\ new.tracks[j].title = old.tracks[j].title
                          /\ new.tracks[j].trackUrl = old.tracks[j].trackUrl
                          /\ new.tracks[j].duration = old.tracks[j].duration
                          /\ new.tracks[j].fileSize = old.tracks[j].fileSize
                          /\ new.tracks[j].channels = old.tracks[j].channels
                          /\ new.tracks[j].format = old.tracks[j].format
                          /\ new.tracks[j].type = old.tracks[j].type
                          /\ new.tracks[j].overlayLabel = old.tracks[j].overlayLabel

\* C36: whether the detail answer nests the card under a wrapper key or
\* returns it flat, getHeroCard returns the same card identifier and
\* chapters, and updateHeroCard sends the same card identifier and the same
\* merged chapter list: the chapters are those the platform held, and two
\* calls answered alike but for the shape come to the same.
SameButShape(p, q) ==
    /\ lookup[p].detail \in {"ok", "noid"}
    /\ lookup[q].detail = lookup[p].detail
    /\ lookup[q].chapters = lookup[p].chapters
    /\ lookup[p].shape = "nested"
    /\ lookup[q].shape = "flat"

MergedFrom(p) == cleanExistingChapters(lookup[p].chapters)

KeptChapters(p) == SubSeq(payload[p].chapters, 1, Len(payload[p].chapters) - 1)

C36_DetailShapeIrrelevant ==
    /\ \A p \in Runs :
          lookup[p].detail \in {"ok", "noid"} =>
              /\ pc[p] = "found" =>
                     /\ existingCard[p].present
                     /\ existingCard[p].cardId = lookup[p].cardId
                     /\ existingCard[p].chapters = lookup[p].chapters
              /\ "refetch" \in requests[p] =>
                     /\ fullCard[p].chapters = lookup[p].chapters
                     /\ payload[p].sent => KeptChapters(p) = MergedFrom(p)
    /\ \A p, q \in Runs :
          SameButShape(p, q) =>
              /\ (pc[p] = "found" /\ pc[q] = "found") =>
                     /\ existingCard[p].cardId = existingCard[q].cardId
                     /\ existingCard[p].chapters = existingCard[q].chapters
              /\ (payload[p].sent /\ payload[q].sent) =>
                     /\ payload[p].cardId = payload[q].cardId
                     /\ KeptChapters(p) = KeptChapters(q)

C36_Witness ==
    \E p, q \in Runs :
        /\ SameButShape(p, q)
        /\ lookup[p].detail = "ok"
        /\ lookup[p].chapters # <<>>
        /\ payload[p].sent /\ payload[q].sent
        /\ payload[p].cardId = payload[q].cardId
        /\ payload[p].cardId # 0
        /\ KeptChapters(p) = KeptChapters(q)
        /\ Len(KeptChapters(p)) = Len(lookup[p].chapters)

\* C37: when both provider keys are set and the OpenAI request fails, the
\* Claude provider is tried before generateStoryContent reports the failure;
\* a failure is reported only after every provider whose key is set failed.
Called(provider) == \E i \in 1..Len(genCalls) : genCalls[i].provider = provider

Configured(provider) == IF provider = "openai" THEN openaiKey ELSE anthropicKey

C37_ClaudeTriedAfterOpenAIFails ==
    (genPc = "done" /\ genResult.kind = "thrown") =>
        /\ \A provider \in Providers :
               Configured(provider) =>
                   \E i \in 1..Len(genCalls) :
                       /\ genCalls[i].provider = provider
                       /\ genCalls[i].outcome # "ok"
        /\ (openaiKey /\ anthropicKey) =>
               /\ Len(genCalls) = 2
               /\ genCalls[1].provider = "openai"
               /\ genCalls[2].provider = "claude"

\* C35: ensureValidToken leaves the token pair it is given as it was and
\* the refreshed pair is kept nowhere: each request's tokenData stays the
\* pair its header presented, and every request that presents an expired
\* pair with a refresh token sends one refresh request of its own, with the
\* refresh token of the header, whatever the other request's refresh came to.
Presented == parsedTokenData(authHeader)

RefreshDue ==
    /\ ~headerRejected(authHeader)
    /\ ensureChecks(Presented, now, clientId) = NeedsRefresh

C35_PairNeverUpdated ==
    \A r \in Runs :
        /\ (routePc[r] # "start" /\ ~headerRejected(authHeader)) =>
               routeToken[r] = Presented
        /\ (RefreshDue /\ routePc[r] \in {"upload", "done"}) =>
               routeRefresh[r] = <<[grant_type |-> "refresh_token", credentials |-> "body",
                                    refresh_token |-> Presented.refresh_token]>>
        /\ ~RefreshDue => routeRefresh[r] = <<>>

C35_Witness ==
    /\ RefreshDue
    /\ routeStatus[1] = 200
    /\ routeAccess[1].kind = "token"
    /\ routePc[2] = "upload"
    /\ routeAccess[2].kind = "token"
    /\ Len(routeRefresh[1]) = 1
    /\ routeRefresh[2] = routeRefresh[1]
    /\ routeToken[2].access_token = ExpiredToken

\* C38: a request the route rejects for its Authorization header, for a
\* missing story text or for missing story metadata has sent no request:
\* no token refresh, and none of the requests of uploadStoryToYoto.
RejectedForHeader(r) == routePc[r] = "done" /\ headerRejected(authHeader)

RejectedForBody(r) ==
    /\ routePc[r] = "done"
    /\ routeBody[r] \in {"nostory", "nometadata"}
    /\ routeStatus[r] = 400

C38_RejectedSendsNothing ==
    \A r \in Runs :
        (RejectedForHeader(r) \/ RejectedForBody(r)) =>
            /\ routeRefresh[r] = <<>>
            /\ requests[r] = {}

\* C39: every authentication check of the useAuth hook leaves isLoading
\* false, and isAuthenticated true only if local storage holds a parsable
\* token whose access token is present and not expired; a stored token that
\* is expired or does not parse is removed by the check. Logout removes the
\* token and leaves isAuthenticated false.
HoldsValidToken(stored, currentTime) ==
    /\ stored.has
    /\ stored.json = "object"
    /\ stored.hasAccess
    /\ ~isTokenExpired(stored.access_token, currentTime)

C39_AuthCheck ==
    [][/\ hookChecks' # hookChecks =>
             /\ ~isLoading'
             /\ isAuthenticated' => HoldsValidToken(localToken', now')
             /\ (localToken.has /\ ~HoldsValidToken(localToken, now)) => ~localToken'.has
       /\ (hookPc' = "left" /\ hookPc # "left") =>
             /\ ~localToken'.has
             /\ ~isAuthenticated']_vars

C39_Witness ==
    /\ hookPc = "mounted"
    /\ hookChecks = 2
    /\ ~isLoading
    /\ isAuthenticated
    /\ hookToken = localToken
    /\ now > StartMs

\* C40: on the callback page the token is written to local storage only by
\* a run whose code exchange succeeded; the PKCE verifier is removed from
\* session storage only once the token is stored, and is kept on every
\* failure; the status goes from loading to one of success and error and
\* does not change after that, also when handleCallback runs more than once.
C40_CallbackStatusFinal ==
    [][/\ localToken' # localToken =>
             \E h \in Runs : cbAnswer'[h] = "tokens" /\ cbAnswer[h] = "none"
       /\ (verifier /\ ~verifier') =>
             /\ localToken' = StoredTokensOf(now)
             /\ cbStatus' = "success"
       /\ (cbStatus' = "error" /\ cbStatus = "loading") => verifier' = verifier
       /\ cbStatus # "loading" => cbStatus' = cbStatus]_vars

====
